---- MODULE Spec2Model ----
(***************************************************************************)
(* A model of gitimpl.py: the object store, the tree builder, the pack     *)
(* parser, the delta resolver and the clone command.                       *)
(*                                                                         *)
(* Byte strings (Python bytes) are sequences over 0..255.  Text (Python    *)
(* str) is restricted to ASCII and is the sequence of its code points, so  *)
(* that encode() and decode() are the identity on the values and decode()  *)
(* fails on a byte >= 128.  A path is a sequence of names below the        *)
(* working directory of the process; a name is a sequence of code points.  *)
(***************************************************************************)
EXTENDS Integers, Sequences, FiniteSets, TLC

VARIABLES
    fs,              \* the filesystem: path -> [type, data, readable]
    pc,              \* the position of the running command
    ret,             \* what the last call returned or raised
    hist,            \* ghost: what the calls so far wrote and returned
    net,             \* what the remote server answers (an input, never changed)
    parent,          \* clone: the target directory
    refs,            \* clone: the advertised refs, a list of <<name, sha>>
    pack_file,       \* clone: the pack bytes not yet consumed
    n_left,          \* clone: the iterations the pack loop has left
    base_content,    \* clone, ref_delta: the content of the base object
    content,         \* clone, ref_delta: the delta bytes not yet consumed
    target_content   \* clone, ref_delta: the target built so far

vars == <<fs, pc, ret, hist, net, parent, refs, pack_file, n_left,
          base_content, content, target_content>>

\* the registers of the clone command
cloneVars == <<net, parent, refs, pack_file, n_left, base_content, content, target_content>>

----------------------------------------------------------------------------
(* Python's sequence operations *)

Min(a, b) == IF a < b THEN a ELSE b

\* s[a:b] for 0 <= a, 0 <= b: the slice clamps to the length, never raises
Slice(s, a, b) ==
    LET lo == Min(a, Len(s))
        hi == Min(b, Len(s))
    IN  IF hi <= lo THEN <<>> ELSE SubSeq(s, lo + 1, hi)

\* s[a:]
From(s, a) == Slice(s, a, Len(s))

\* s.startswith(t)
StartsWith(s, t) == Len(s) >= Len(t) /\ SubSeq(s, 1, Len(t)) = t

\* s.endswith(t)
EndsWith(s, t) == Len(s) >= Len(t) /\ SubSeq(s, Len(s) - Len(t) + 1, Len(s)) = t

\* the 1-based position of the first x in s, 0 when there is none
IndexOf(s, x) ==
    IF \E i \in 1..Len(s) : s[i] = x
    THEN CHOOSE i \in 1..Len(s) : s[i] = x /\ \A j \in 1..(i - 1) : s[j] # x
    ELSE 0

\* s cut at its position i: one part when i is 0
CutAt(s, i) ==
    IF i = 0 THEN <<s>> ELSE <<SubSeq(s, 1, i - 1), SubSeq(s, i + 1, Len(s))>>

\* s.split(x, 1): one or two parts
SplitOnce(s, x) == CutAt(s, IndexOf(s, x))

\* s.split(x): every part
RECURSIVE Split(_, _)
SplitRest(parts, x) ==
    IF Len(parts) = 1 THEN parts ELSE <<parts[1]>> \o Split(parts[2], x)

Split(s, x) == SplitRest(SplitOnce(s, x), x)

\* b"".join(parts)
RECURSIVE Join(_)
Join(parts) == IF parts = <<>> THEN <<>> ELSE Head(parts) \o Join(Tail(parts))

\* [x] * n
Repeat(x, n) == [i \in 1..n |-> x]

\* lexicographic order of two sequences of numbers (Python's < on str, bytes)
SeqLess(s, t) ==
    \/ Len(s) < Len(t) /\ SubSeq(t, 1, Len(s)) = s
    \/ \E i \in 1..Min(Len(s), Len(t)) :
          /\ s[i] < t[i]
          /\ \A j \in 1..(i - 1) : s[j] = t[j]

\* the least sequence of a set
Least(S) == CHOOSE x \in S : \A y \in S \ {x} : SeqLess(x, y)

\* sorted(S) for a set of sequences
RECURSIVE Sorted(_)
SortedFrom(m, S) == <<m>> \o Sorted(S \ {m})

Sorted(S) == IF S = {} THEN <<>> ELSE SortedFrom(Least(S), S)

----------------------------------------------------------------------------
(* Text constants of the program *)

NUL == 0
SP == 32
LF == 10
DOT == 46
HASH == 35

S_git == <<46, 103, 105, 116>>                 \* ".git"
S_objects == <<111, 98, 106, 101, 99, 116, 115>>   \* "objects"
S_refs == <<114, 101, 102, 115>>               \* "refs"
S_heads == <<104, 101, 97, 100, 115>>          \* "heads"
S_HEAD == <<72, 69, 65, 68>>                   \* "HEAD"
S_main == <<109, 97, 105, 110>>                \* "main"
S_commit == <<99, 111, 109, 109, 105, 116>>    \* "commit"
S_tree == <<116, 114, 101, 101>>               \* "tree"
S_blob == <<98, 108, 111, 98>>                 \* "blob"
S_tag == <<116, 97, 103>>                      \* "tag"
S_ref_prefix == <<114, 101, 102, 58, 32>>      \* "ref: "

\* "ref: refs/heads/main\n", the text init_repo writes to HEAD
InitialHead == S_ref_prefix \o S_refs \o <<47>> \o S_heads \o <<47>> \o S_main \o <<LF>>

\* the four object kinds
Kinds == {S_commit, S_tree, S_blob, S_tag}

\* f"{n}": the decimal digits of n >= 0
RECURSIVE Decimal(_)
Decimal(n) == IF n < 10 THEN <<48 + n>> ELSE Decimal(n \div 10) \o <<48 + (n % 10)>>

IsDigits(s) == s # <<>> /\ \A i \in 1..Len(s) : s[i] \in 48..57

\* one hex digit, lower case
HexDigit(n) == IF n < 10 THEN 48 + n ELSE 87 + n

\* the value of a hex digit of either case, -1 for any other character
HexValue(c) ==
    IF c \in 48..57 THEN c - 48
    ELSE IF c \in 97..102 THEN c - 87
    ELSE IF c \in 65..70 THEN c - 55
    ELSE -1

\* bytes.hex()
Hex(bs) ==
    [i \in 1..(2 * Len(bs)) |->
        IF i % 2 = 1 THEN HexDigit(bs[(i + 1) \div 2] \div 16)
        ELSE HexDigit(bs[i \div 2] % 16)]

\* bytes.fromhex(h) for a string of an even number of hex digits
FromHex(h) ==
    [i \in 1..(Len(h) \div 2) |-> HexValue(h[2 * i - 1]) * 16 + HexValue(h[2 * i])]

\* bytes.decode(): defined on ASCII, UnicodeDecodeError on a byte >= 128
Decodable(bs) == \A i \in 1..Len(bs) : bs[i] < 128

----------------------------------------------------------------------------
(* zlib: a stream is the two header bytes, one stored deflate block        *)
(* (BFINAL/BTYPE, LEN, NLEN, the data) and the Adler-32 of the data, which *)
(* is a valid zlib stream that every inflater decodes to the data.         *)

Mid(lo, hi) == (lo + hi) \div 2

AdlerJoin(l, r) == <<(l[1] + r[1]) % 65521, (l[2] + r[2]) % 65521>>

\* <<the sum of s[i], the sum of (k - i) * s[i]>> over i in lo..hi, modulo 65521
RECURSIVE AdlerRange(_, _, _, _)
AdlerRange(s, lo, hi, k) ==
    IF lo > hi THEN <<0, 0>>
    ELSE IF lo = hi THEN <<s[lo], ((k - lo) * s[lo]) % 65521>>
    ELSE AdlerJoin(AdlerRange(s, lo, Mid(lo, hi), k), AdlerRange(s, Mid(lo, hi) + 1, hi, k))

\* the four bytes of the checksum, big-endian: b, the sum of every a, then a,
\* 1 plus the sum of the bytes
AdlerBytes(r, n) ==
    <<((n + r[2]) % 65521) \div 256, ((n + r[2]) % 65521) % 256,
      ((1 + r[1]) % 65521) \div 256, ((1 + r[1]) % 65521) % 256>>

Adler32(s) == AdlerBytes(AdlerRange(s, 1, Len(s), Len(s) + 1), Len(s))

ZHeader == <<120, 1>>

\* zlib.compress(data)
Compress(data) ==
    LET n == Len(data)
    IN  ZHeader \o <<1, n % 256, n \div 256, 255 - (n % 256), 255 - (n \div 256)>>
        \o data \o Adler32(data)

\* zlib.decompressobj().decompress(bs): [err, data, unused_data, eof].  A
\* stream that stops early yields the data seen so far and no error; bytes
\* after the checksum are unused_data.
Inflate(bs) ==
    LET n == IF Len(bs) >= 5 THEN bs[4] + 256 * bs[5] ELSE 0
        bad == [err |-> "zlib.error", data |-> <<>>, unused |-> <<>>, eof |-> FALSE]
        part(d) == [err |-> "OK", data |-> d, unused |-> <<>>, eof |-> FALSE]
    IN  IF Len(bs) < 2 THEN part(<<>>)
        ELSE IF SubSeq(bs, 1, 2) # ZHeader THEN bad
        ELSE IF Len(bs) < 3 THEN part(<<>>)
        ELSE IF bs[3] # 1 THEN bad
        ELSE IF Len(bs) < 7 THEN part(<<>>)
        ELSE IF bs[6] # 255 - bs[4] \/ bs[7] # 255 - bs[5] THEN bad
        ELSE IF Len(bs) < 7 + n + 4 THEN part(Slice(bs, 7, 7 + n))
        ELSE IF SubSeq(bs, 8 + n, 11 + n) # Adler32(SubSeq(bs, 8, 7 + n)) THEN bad
        ELSE [err |-> "OK", data |-> SubSeq(bs, 8, 7 + n),
              unused |-> From(bs, 11 + n), eof |-> TRUE]

\* zlib.decompress(bs): the whole stream or zlib.error; trailing bytes are ignored
WholeStream(r) ==
    IF r.err = "OK" /\ r.eof THEN [err |-> "OK", data |-> r.data]
    ELSE [err |-> "zlib.error", data |-> <<>>]

Decompress(bs) == WholeStream(Inflate(bs))

----------------------------------------------------------------------------
(* SHA-1: a digest of 20 bytes that depends on every byte of the input, on *)
(* its place and on the length.  The digest is two polynomial checksums of *)
(* the input (modulo 46337, at the points 257 and 1009), the length, and   *)
(* byte-wise mixes of the three.                                           *)

DigestLen == 20
HexLen == 40

PolyJoin(l, r) ==
    <<(l[1] * r[2] + r[1]) % 46337, (l[2] * r[2]) % 46337,
      (l[3] * r[4] + r[3]) % 46337, (l[4] * r[4]) % 46337>>

\* <<the checksum of s[lo..hi] at 257, 257 to the power of the length, the
\* checksum at 1009, 1009 to the power of the length>>, modulo 46337
RECURSIVE PolyRange(_, _, _)
PolyRange(s, lo, hi) ==
    IF lo > hi THEN <<0, 1, 0, 1>>
    ELSE IF lo = hi THEN <<s[lo] + 1, 257, s[lo] + 1, 1009>>
    ELSE PolyJoin(PolyRange(s, lo, Mid(lo, hi)), PolyRange(s, Mid(lo, hi) + 1, hi))

\* the digest of the checksums r of an input of length n
DigestOf(r, n) ==
    [i \in 1..DigestLen |->
        LET h == <<r[1], r[3], (r[1] + 3 * r[3] + 7 * n) % 46337, (n + 1) % 46337>>
            k == ((i - 1) % 4) + 1
            q == (i - 1) \div 4
        IN  IF q = 0 THEN h[k] % 256
            ELSE IF q = 1 THEN h[k] \div 256
            ELSE (h[k] + q * h[(k % 4) + 1]) % 256]

\* hashlib.sha1(s).digest()
Sha1Digest(s) == DigestOf(PolyRange(s, 1, Len(s)), Len(s))

\* hashlib.sha1(s).hexdigest()
Sha1Hex(s) == Hex(Sha1Digest(s))

----------------------------------------------------------------------------
(* The filesystem.  fs maps each existing path to its node; the working    *)
(* directory of the process, <<>>, always exists.                          *)

Dir == [type |-> "dir"]
File(data) == [type |-> "file", data |-> data, readable |-> TRUE]
Unreadable(data) == [type |-> "file", data |-> data, readable |-> FALSE]

EmptyFs == (<<>> :> Dir)

\* Path / name: an empty name adds nothing
Child(p, name) == IF name = <<>> THEN p ELSE Append(p, name)

\* Path.parent
Parent(p) == IF p = <<>> THEN <<>> ELSE SubSeq(p, 1, Len(p) - 1)

IsPrefix(p, q) == Len(p) <= Len(q) /\ SubSeq(q, 1, Len(p)) = p

Exists(f, p) == p \in DOMAIN f
IsDir(f, p) == p \in DOMAIN f /\ f[p].type = "dir"
IsFile(f, p) == p \in DOMAIN f /\ f[p].type = "file"

\* the result of an operation on the filesystem
FsOk(f) == [err |-> "OK", fs |-> f]
FsErr(e, f) == [err |-> e, fs |-> f]

\* the directory p made in the result of making its parents
MkdirIn(r, p) == IF r.err # "OK" THEN r ELSE FsOk((p :> Dir) @@ r.fs)

\* Path.mkdir(parents=True, exist_ok=exist_ok)
RECURSIVE MkdirP(_, _, _)
MkdirP(f, p, exist_ok) ==
    IF p \in DOMAIN f
    THEN IF exist_ok /\ f[p].type = "dir" THEN FsOk(f) ELSE FsErr("FileExistsError", f)
    ELSE IF Parent(p) \in DOMAIN f
    THEN IF f[Parent(p)].type = "dir" THEN FsOk((p :> Dir) @@ f)
         ELSE FsErr("NotADirectoryError", f)
    ELSE MkdirIn(MkdirP(f, Parent(p), TRUE), p)

\* Path.write_bytes(data), Path.write_text(text)
WriteBytes(f, p, data) ==
    IF ~Exists(f, Parent(p)) THEN FsErr("FileNotFoundError", f)
    ELSE IF ~IsDir(f, Parent(p)) THEN FsErr("NotADirectoryError", f)
    ELSE IF IsDir(f, p) THEN FsErr("IsADirectoryError", f)
    ELSE FsOk((p :> File(data)) @@ f)

\* the next statement after one that left r: skipped when r is an exception
ThenMkdir(r, p, exist_ok) == IF r.err # "OK" THEN r ELSE MkdirP(r.fs, p, exist_ok)
ThenWrite(r, p, data) == IF r.err # "OK" THEN r ELSE WriteBytes(r.fs, p, data)

\* Path.read_bytes(): [err, data]
ReadBytes(f, p) ==
    IF ~Exists(f, p) THEN [err |-> "FileNotFoundError", data |-> <<>>]
    ELSE IF IsDir(f, p) THEN [err |-> "IsADirectoryError", data |-> <<>>]
    ELSE IF ~f[p].readable THEN [err |-> "PermissionError", data |-> <<>>]
    ELSE [err |-> "OK", data |-> f[p].data]

\* Path.iterdir(): the children, in no particular order
IterDir(f, p) == {q \in DOMAIN f : Len(q) = Len(p) + 1 /\ IsPrefix(p, q)}

\* shutil.rmtree(p)
RmTree(f, p) == [q \in {q \in DOMAIN f : ~IsPrefix(p, q)} \cup {<<>>} |-> f[q]]

----------------------------------------------------------------------------
(* The object store *)

GitDir(par) == Append(par, S_git)
ObjectsDir(par) == Append(GitDir(par), S_objects)
HeadsDir(par) == GitDir(par) \o <<S_refs, S_heads>>
HeadPath(par) == Append(GitDir(par), S_HEAD)

\* parent / ".git" / "objects" / sha[:2] / sha[2:]
ObjectPath(par, sha) == Child(Child(ObjectsDir(par), Slice(sha, 0, 2)), From(sha, 2))

\* init_repo(parent)
init_repo(f, par) ==
    ThenWrite(ThenMkdir(ThenMkdir(MkdirP(f, GitDir(par), FALSE),
                                  ObjectsDir(par), FALSE),
                        HeadsDir(par), FALSE),
              HeadPath(par), InitialHead)

\* the bytes that are hashed and stored: b"<ty> <len>\0" + content
StoreBytes(ty, body) == ty \o <<SP>> \o Decimal(Len(body)) \o <<NUL>> \o body

\* the identity of an object
ObjectHash(ty, body) == Sha1Hex(StoreBytes(ty, body))

\* what write_object returns after the write that left r
Written(r, hash) ==
    [err |-> r.err, fs |-> r.fs, hash |-> IF r.err = "OK" THEN hash ELSE <<>>]

\* the store bytes compressed and written to the path of their hash
StoreAs(f, par, store, hash) ==
    Written(ThenWrite(MkdirP(f, Parent(ObjectPath(par, hash)), TRUE),
                      ObjectPath(par, hash), Compress(store)),
            hash)

\* write_object(parent, ty, content): [err, fs, hash]
StoreHashed(f, par, store) == StoreAs(f, par, store, Sha1Hex(store))

write_object(f, par, ty, body) == StoreHashed(f, par, StoreBytes(ty, body))

ReadErr(e) == [err |-> e, ty |-> <<>>, content |-> <<>>]

\* ty, _ = head.split(b" "); return ty.decode(), content
HeaderWords(words, body) ==
    IF Len(words) # 2 THEN ReadErr("ValueError")
    ELSE IF ~Decodable(words[1]) THEN ReadErr("UnicodeDecodeError")
    ELSE [err |-> "OK", ty |-> words[1], content |-> body]

\* head, content = <the parts>
HeadAndContent(parts) ==
    IF Len(parts) # 2 THEN ReadErr("ValueError")
    ELSE HeaderWords(Split(parts[1], SP), parts[2])

\* zlib.decompress(bs).split(b"\0", maxsplit=1)
ParseRecord_SplitEveryNul(z) ==
    IF z.err # "OK" THEN ReadErr(z.err) ELSE HeadAndContent(Split(z.data, NUL))

ParseRecord(z) ==
    IF z.err # "OK" THEN ReadErr(z.err) ELSE HeadAndContent(SplitOnce(z.data, NUL))

ParseFile(file) ==
    IF file.err # "OK" THEN ReadErr(file.err) ELSE ParseRecord(Decompress(file.data))

\* read_object(parent, sha): [err, ty, content]
read_object(f, par, sha) == ParseFile(ReadBytes(f, ObjectPath(par, sha)))

----------------------------------------------------------------------------
(* Tree objects *)

S_mode_dir == <<52, 48, 48, 48, 48>>           \* "40000"
S_mode_file == <<49, 48, 48, 54, 52, 52>>      \* "100644"

\* "0" * 40, the hash write_tree gives a file it could not store
ZeroHash == Repeat(48, HexLen)

\* Path.name
Name(p) == IF p = <<>> THEN <<>> ELSE p[Len(p)]

\* m.encode() + b" " + n.encode() + b"\0" + bytes.fromhex(h), over the entries
RECURSIVE SerializeEntries(_)
SerializeEntries(entries) ==
    IF entries = <<>> THEN <<>>
    ELSE LET e == Head(entries)
         IN  e[1] \o <<SP>> \o e[2] \o <<NUL>> \o FromHex(e[3])
             \o SerializeEntries(Tail(entries))

\* the names of the children of p that write_tree visits, in the order it
\* visits them: sorted, without ".git" at the root and without hidden names
VisibleChildren_GitAtRootOnly(f, p, exclude_git) ==
    Sorted({Name(q) : q \in {q \in IterDir(f, p) :
                ~(exclude_git /\ Name(q) = S_git)}})

VisibleChildren(f, p, exclude_git) ==
    Sorted({Name(q) : q \in {q \in IterDir(f, p) :
                /\ ~(exclude_git /\ Name(q) = S_git)
                /\ ~StartsWith(Name(q), <<DOT>>)}})

\* toEntry(p, exclude_git) of write_tree(parent): [err, fs, entry], and the
\* list comprehension over the children: [err, fs, entries]
RECURSIVE toEntry(_, _, _, _)
RECURSIVE toEntries(_, _, _, _)

\* return mode, p.name, hash
EntryOf(w, mode, p) ==
    [err |-> w.err, fs |-> w.fs, entry |-> <<mode, Name(p), w.hash>>]

\* the directory p after its children: the tree of their entries is stored
TreeEntry(sub, par, p) ==
    IF sub.err # "OK" THEN [err |-> sub.err, fs |-> sub.fs, entry |-> <<>>]
    ELSE EntryOf(write_object(sub.fs, par, S_tree, SerializeEntries(sub.entries)),
                 S_mode_dir, p)

\* the file p after write_object: any exception gives the zero hash
BlobStored(w, p) ==
    [err |-> "OK", fs |-> w.fs,
     entry |-> <<S_mode_file, Name(p), IF w.err = "OK" THEN w.hash ELSE ZeroHash>>]

\* the file p after read_bytes: any exception gives the zero hash
BlobEntry(f, par, p, file) ==
    IF file.err # "OK"
    THEN [err |-> "OK", fs |-> f, entry |-> <<S_mode_file, Name(p), ZeroHash>>]
    ELSE BlobStored(write_object(f, par, S_blob, file.data), p)

toEntry(f, par, p, exclude_git) ==
    IF IsDir(f, p)
    THEN TreeEntry(toEntries(f, par, p, VisibleChildren(f, p, exclude_git)), par, p)
    ELSE BlobEntry(f, par, p, ReadBytes(f, p))

EntriesCons(e, rest) ==
    [err |-> rest.err, fs |-> rest.fs,
     entries |-> IF rest.err = "OK" THEN <<e>> \o rest.entries ELSE <<>>]

EntriesAfter(first, par, p, names) ==
    IF first.err # "OK" THEN [err |-> first.err, fs |-> first.fs, entries |-> <<>>]
    ELSE EntriesCons(first.entry, toEntries(first.fs, par, p, names))

toEntries(f, par, p, names) ==
    IF names = <<>> THEN [err |-> "OK", fs |-> f, entries |-> <<>>]
    ELSE EntriesAfter(toEntry(f, par, Append(p, Head(names)), FALSE), par, p, Tail(names))

\* _, _, tree_hash = toEntry(Path(".").absolute(), True)
TreeHash(r) ==
    [err |-> r.err, fs |-> r.fs, hash |-> IF r.err = "OK" THEN r.entry[3] ELSE <<>>]

\* write_tree(parent) with the working directory cwd: [err, fs, hash]
write_tree(f, par, cwd) == TreeHash(toEntry(f, par, cwd, TRUE))

\* the entries of a tree's content, as ls-tree and render_tree read them:
\* [err, entries], each entry <<mode, name, sha>>
RECURSIVE ParseTree(_)
ParsedCons(mode, name, sha, rest) ==
    IF rest.err # "OK" THEN rest
    ELSE [err |-> "OK", entries |-> <<<<mode, name, sha>>>> \o rest.entries]

\* name, tree = tree.split(b"\0", 1); sha = tree[:20]; tree = tree[20:]
ParseName(mode, b) ==
    IF Len(b) # 2 THEN [err |-> "ValueError", entries |-> <<>>]
    ELSE ParsedCons(mode, b[1], Hex(Slice(b[2], 0, DigestLen)),
                    ParseTree(From(b[2], DigestLen)))

\* mode, tree = tree.split(b" ", 1)
ParseMode(a) ==
    IF Len(a) # 2 THEN [err |-> "ValueError", entries |-> <<>>]
    ELSE ParseName(a[1], SplitOnce(a[2], NUL))

ParseTree(tree) ==
    IF tree = <<>> THEN [err |-> "OK", entries |-> <<>>]
    ELSE ParseMode(SplitOnce(tree, SP))

----------------------------------------------------------------------------
(* Pack entry headers and delta streams *)

S_ofs_delta == <<111, 102, 115, 95, 100, 101, 108, 116, 97>>   \* "ofs_delta"
S_ref_delta == <<114, 101, 102, 95, 100, 101, 108, 116, 97>>   \* "ref_delta"
S_unknown == <<117, 110, 107, 110, 111, 119, 110>>             \* "unknown"

\* b & (1 << i), as a truth value
Bit(b, i) == (b \div (2 ^ i)) % 2 = 1

SizeErr(e) == [err |-> e, size |-> 0, rest |-> <<>>]

\* while bs[i - 1] & 0b10000000: size += (bs[i] & 0b01111111) << off; off += 7;
\* i += 1, and then bs[i:].  Here i counts the bytes read, so that the byte
\* last read is the i-th of bs.
RECURSIVE SizeLoop(_, _, _, _)
SizeLoop(bs, i, off, size) ==
    IF ~Bit(bs[i], 7) THEN [err |-> "OK", size |-> size, rest |-> From(bs, i)]
    ELSE IF i >= Len(bs) THEN SizeErr("IndexError")
    ELSE SizeLoop(bs, i + 1, off + 7, size + (bs[i + 1] % 128) * (2 ^ off))

\* type_map.get(ty, "unknown")
type_map(ty) ==
    CASE ty = 1 -> S_commit
      [] ty = 2 -> S_tree
      [] ty = 3 -> S_blob
      [] ty = 4 -> S_tag
      [] ty = 6 -> S_ofs_delta
      [] ty = 7 -> S_ref_delta
      [] OTHER -> S_unknown

Typed(ty, r) == [err |-> r.err, ty |-> ty, size |-> r.size, rest |-> r.rest]

\* next_size_type(bs): [err, ty, size, rest]
next_size_type_OffsetSeven(bs) ==
    IF bs = <<>> THEN Typed(S_unknown, SizeErr("IndexError"))
    ELSE Typed(type_map((bs[1] \div 16) % 8), SizeLoop(bs, 1, 7, bs[1] % 16))

next_size_type(bs) ==
    IF bs = <<>> THEN Typed(S_unknown, SizeErr("IndexError"))
    ELSE Typed(type_map((bs[1] \div 16) % 8), SizeLoop(bs, 1, 4, bs[1] % 16))

\* next_size(bs): [err, size, rest]
next_size(bs) ==
    IF bs = <<>> THEN SizeErr("IndexError") ELSE SizeLoop(bs, 1, 7, bs[1] % 128)

\* the two loops of a copy op over the bits i of the op byte c[1]: bits 0..3
\* select the bytes of offset, bits 4..6 the bytes of size; ptr is data_ptr
RECURSIVE CopyArgs(_, _, _, _, _)
CopyArgs(c, i, ptr, offset, size) ==
    IF i = 7 THEN [err |-> "OK", ptr |-> ptr, offset |-> offset, size |-> size]
    ELSE IF ~Bit(c[1], i) THEN CopyArgs(c, i + 1, ptr, offset, size)
    ELSE IF ptr >= Len(c)
    THEN [err |-> "IndexError", ptr |-> ptr, offset |-> offset, size |-> size]
    ELSE IF i < 4 THEN CopyArgs(c, i + 1, ptr + 1, offset + c[ptr + 1] * (2 ^ (8 * i)), size)
    ELSE CopyArgs(c, i + 1, ptr + 1, offset, size + c[ptr + 1] * (2 ^ (8 * (i - 4))))

OpErr(e) == [err |-> e, piece |-> <<>>, rest |-> <<>>]

\* content = content[data_ptr:]; target_content += base_content[offset:offset + size]
CopyPiece(base, c, a) ==
    IF a.err # "OK" THEN OpErr(a.err)
    ELSE [err |-> "OK", piece |-> Slice(base, a.offset, a.offset + a.size),
          rest |-> From(c, a.ptr)]

\* size = content[0]; target_content += content[1:size + 1]; content = content[size + 1:]
InsertPiece_ShortSlice(c) ==
    [err |-> "OK", piece |-> Slice(c, 1, c[1]), rest |-> From(c, c[1] + 1)]

InsertPiece(c) ==
    [err |-> "OK", piece |-> Slice(c, 1, c[1] + 1), rest |-> From(c, c[1] + 1)]

\* one pass of the loop over a delta stream c that is not empty: [err, piece, rest]
delta_op(base, c) ==
    IF Bit(c[1], 7) THEN CopyPiece(base, c, CopyArgs(c, 0, 1, 0, 0))
    ELSE InsertPiece(c)

----------------------------------------------------------------------------
(* The registers of the clone command while no clone runs *)

NoNet == [up |-> FALSE, advert |-> <<>>, serving |-> FALSE, pack |-> <<>>]

CloneIdle ==
    /\ net = NoNet
    /\ parent = <<>>
    /\ refs = <<>>
    /\ pack_file = <<>>
    /\ n_left = 0
    /\ base_content = <<>>
    /\ content = <<>>
    /\ target_content = <<>>

NoRet == [op |-> "none"]

----------------------------------------------------------------------------
(* SpecStore: calls of init_repo, write_object and read_object on the      *)
(* repository of the working directory.                                    *)

MaxWrites == 3

\* the contents written: empty, a NUL, spaces and a NUL between letters
StoreContents == {<<>>, <<NUL>>, <<97, SP, NUL, 98, SP>>}

\* a name no object has
NoSuchSha == Repeat(102, HexLen)

InitStore ==
    /\ fs = EmptyFs
    /\ pc = "idle"
    /\ ret = NoRet
    /\ hist = [written |-> {}]
    /\ CloneIdle

\* main, case ["init"]
InitDone(r) ==
    /\ fs' = r.fs
    /\ ret' = [op |-> "init", err |-> r.err]

InitCmd ==
    /\ pc = "idle"
    /\ InitDone(init_repo(fs, <<>>))
    /\ UNCHANGED <<pc, hist, cloneVars>>

\* write_object(Path("."), ty, content)
WriteDone(r, ty, c) ==
    /\ fs' = r.fs
    /\ ret' = [op |-> "write", err |-> r.err, hash |-> r.hash]
    /\ hist' = IF r.err = "OK"
               THEN [hist EXCEPT !.written =
                         @ \cup {[ty |-> ty, content |-> c, hash |-> r.hash]}]
               ELSE hist

WriteObjectCall(ty, c) ==
    /\ pc = "idle"
    /\ Cardinality(hist.written) < MaxWrites
    /\ WriteDone(write_object(fs, <<>>, ty, c), ty, c)
    /\ UNCHANGED <<pc, cloneVars>>

\* read_object(Path("."), sha), as main's case ["cat-file", "-p", sha] calls it
CatFile(sha) ==
    /\ pc = "idle"
    /\ ret' = [op |-> "read", sha |-> sha, res |-> read_object(fs, <<>>, sha)]
    /\ UNCHANGED <<fs, pc, hist, cloneVars>>

NextStore ==
    \/ InitCmd
    \/ \E ty \in Kinds, c \in StoreContents : WriteObjectCall(ty, c)
    \/ \E sha \in {w.hash : w \in hist.written} \cup {NoSuchSha} : CatFile(sha)

SpecStore == InitStore /\ [][NextStore]_vars

\* C1: every object written so far reads back as exactly the kind and the
\* content it was written with, whatever else was written to the store since
RoundTrip ==
    \A w \in hist.written :
        read_object(fs, <<>>, w.hash) = [err |-> "OK", ty |-> w.ty, content |-> w.content]

\* C1: a read has returned the content with a NUL and spaces, after three writes
RoundTripWitness ==
    /\ Cardinality(hist.written) = MaxWrites
    /\ ret.op = "read"
    /\ ret.res.err = "OK"
    /\ ret.res.content = <<97, SP, NUL, 98, SP>>
    /\ \E w \in hist.written : w.content = <<>> /\ w.hash # ret.sha

----------------------------------------------------------------------------
(* SpecRead: read_object on a store that holds one file, whose bytes are   *)
(* an input: a well-formed record, a malformed one, or no zlib stream.     *)

S_foo == <<102, 111, 111>>      \* "foo", no object kind

\* the name of the stored file
RecordSha == Repeat(97, HexLen)

\* the decompressed records: kind token, spaces, length field, NUL, content
RawRecords ==
    {tok \o Repeat(SP, nsp) \o len \o (IF nul THEN <<NUL>> ELSE <<>>) \o c :
        tok \in {S_blob, S_commit, S_foo, <<>>},
        nsp \in 0..2,
        len \in {<<50>>, <<120>>, <<>>, <<49, 50>>},
        nul \in BOOLEAN,
        c \in {<<>>, <<104, 105>>, <<104, NUL, 105>>}}

\* the bytes of the file: a stream of a record, a stream cut short, no stream
RawFiles ==
    {Compress(r) : r \in RawRecords}
    \cup {Slice(Compress(r), 0, Len(Compress(r)) - 1) : r \in {S_blob \o <<SP, 50, NUL, 104, 105>>}}
    \cup {<<>>, <<1, 2, 3>>}

InitRead ==
    /\ \E bytes \in RawFiles :
         fs = WriteBytes(MkdirP(init_repo(EmptyFs, <<>>).fs,
                                Parent(ObjectPath(<<>>, RecordSha)), TRUE).fs,
                         ObjectPath(<<>>, RecordSha), bytes).fs
    /\ pc = "idle"
    /\ ret = NoRet
    /\ hist = [written |-> {}]
    /\ CloneIdle

NextRead == \E sha \in {RecordSha, NoSuchSha} : CatFile(sha)

SpecRead == InitRead /\ [][NextRead]_vars

\* the header of a record: the bytes before its first NUL
HeaderOf(rec) == SplitOnce(rec, NUL)[1]

\* C2, in the claim's words: the header has no NUL, or its length field is not
\* a number, or its kind token is none of the four kinds
Malformed(rec) ==
    \/ IndexOf(rec, NUL) = 0
    \/ LET sp == IndexOf(HeaderOf(rec), SP)
       IN  \/ sp = 0
           \/ SubSeq(HeaderOf(rec), 1, sp - 1) \notin Kinds
           \/ ~IsDigits(SubSeq(HeaderOf(rec), sp + 1, Len(HeaderOf(rec))))

\* the exceptions that are the spec's NotFound and DecodeError
NotFoundErrors == {"FileNotFoundError"}
DecodeErrors == {"zlib.error", "ValueError", "UnicodeDecodeError"}

\* C2: a read of an absent object raises NotFound, a read of a malformed
\* record raises DecodeError, and neither returns a (kind, content) pair
ReadRejectsMalformed ==
    ret.op = "read" =>
        LET file == ReadBytes(fs, ObjectPath(<<>>, ret.sha))
            z == Decompress(file.data)
        IN  /\ file.err = "FileNotFoundError" => ret.res.err \in NotFoundErrors
            /\ file.err = "OK" /\ z.err # "OK" => ret.res.err \in DecodeErrors
            /\ file.err = "OK" /\ z.err = "OK" /\ Malformed(z.data)
                   => ret.res.err \in DecodeErrors

\* what the code does reject: an absent file, bytes that are no complete zlib
\* stream, a record without NUL, a header that is not two words
ReadRejectsWhatItParses ==
    ret.op = "read" =>
        LET file == ReadBytes(fs, ObjectPath(<<>>, ret.sha))
            z == Decompress(file.data)
        IN  /\ file.err = "FileNotFoundError" => ret.res.err \in NotFoundErrors
            /\ file.err = "OK" /\ z.err # "OK" => ret.res.err \in DecodeErrors
            /\ file.err = "OK" /\ z.err = "OK"
               /\ (IndexOf(z.data, NUL) = 0 \/ Len(Split(HeaderOf(z.data), SP)) # 2)
                   => ret.res.err \in DecodeErrors

----------------------------------------------------------------------------
(* SpecTree: the commands write-tree and hash-object in a working          *)
(* directory that is an input and that nothing else changes.               *)

MaxBuilds == 2

N_a == <<97>>              \* "a"
N_ab == <<97, 98>>         \* "ab"
N_b == <<98>>              \* "b"
N_c == <<99>>              \* "c"
N_h == <<DOT, 104>>        \* ".h"

\* the function with no argument
NoFiles == [q \in {} |-> Dir]

Opt(cond, f) == IF cond THEN f ELSE NoFiles

\* the working directories: files a, ab, b and .h, a directory c with the
\* files a and b, a hidden file and a nested repository, and .git or none
TreeInputs ==
    {   Opt(a # "none", <<N_a>> :> File(IF a = "x" THEN <<120>> ELSE <<121, NUL>>))
     @@ Opt(ab,  <<N_ab>> :> File(<<120>>))
     @@ Opt(b # "none", <<N_b>> :> IF b = "x" THEN File(<<>>) ELSE Unreadable(<<122>>))
     @@ Opt(h,   <<N_h>> :> File(<<104>>))
     @@ Opt("c" \in c, <<N_c>> :> Dir)
     @@ Opt({"c", "a"} \subseteq c, <<N_c, N_a>> :> File(<<120>>))
     @@ Opt({"c", "b"} \subseteq c, <<N_c, N_b>> :> File(<<98, SP>>))
     @@ Opt({"c", "h"} \subseteq c, <<N_c, N_h>> :> File(<<104>>))
     @@ Opt({"c", "git"} \subseteq c,
            (<<N_c, S_git>> :> Dir) @@ (<<N_c, S_git, S_HEAD>> :> File(InitialHead)))
     @@ (IF git THEN init_repo(EmptyFs, <<>>).fs ELSE EmptyFs) :
        a \in {"none", "x", "y"}, ab \in BOOLEAN, b \in {"none", "x", "unreadable"},
        h \in BOOLEAN, git \in BOOLEAN,
        c \in {{}} \cup {{"c"} \cup k : k \in SUBSET {"a", "b", "h", "git"}}}

InitTree ==
    /\ fs \in TreeInputs
    /\ pc = "idle"
    /\ ret = NoRet
    /\ hist = [builds |-> <<>>]
    /\ CloneIdle

\* main, case ["write-tree"]
WriteTreeDone(r) ==
    /\ fs' = r.fs
    /\ ret' = [op |-> "write-tree", err |-> r.err, hash |-> r.hash]
    /\ hist' = [hist EXCEPT !.builds = Append(@, r.hash)]

WriteTreeCmd ==
    /\ pc = "idle"
    /\ Len(hist.builds) < MaxBuilds
    /\ WriteTreeDone(write_tree(fs, <<>>, <<>>))
    /\ UNCHANGED <<pc, cloneVars>>

\* main, case ["hash-object", "-w", path]
HashObjectDone(w) ==
    /\ ret' = [op |-> "hash-object", err |-> w.err, hash |-> w.hash]
    /\ fs' = w.fs

HashObjectRead(file) ==
    IF file.err # "OK"
    THEN /\ ret' = [op |-> "hash-object", err |-> file.err, hash |-> <<>>]
         /\ fs' = fs
    ELSE HashObjectDone(write_object(fs, <<>>, S_blob, file.data))

HashObjectCmd(path) ==
    /\ pc = "idle"
    /\ HashObjectRead(ReadBytes(fs, path))
    /\ UNCHANGED <<pc, hist, cloneVars>>

NextTree ==
    \/ WriteTreeCmd
    \/ \E path \in {<<N_a>>, <<N_c, N_b>>} : HashObjectCmd(path)

SpecTree == InitTree /\ [][NextTree]_vars

\* the objects of the store of the working directory: the sha of every file
\* objects/xx/yyyy
StoredShas(f, par) ==
    {q[Len(q) - 1] \o q[Len(q)] :
        q \in {q \in DOMAIN f : Len(q) = Len(ObjectsDir(par)) + 2
                                /\ IsPrefix(ObjectsDir(par), q) /\ IsFile(f, q)}}

\* the names of the entries of a stored tree, in the order they are stored
EntryNames(tree) ==
    LET es == ParseTree(tree).entries IN [i \in 1..Len(es) |-> es[i][2]]

Ascending(names) == \A i \in 1..(Len(names) - 1) : SeqLess(names[i], names[i + 1])

\* the names of the children of a directory that are not hidden
ShownNames(f, p) == {Name(q) : q \in {q \in IterDir(f, p) : Name(q)[1] # DOT}}

\* C3: every stored tree lists its entries in ascending order of name and has
\* no entry whose name starts with a dot; the tree a build returns lists
\* exactly the names of the working directory that are not hidden; and every
\* build of the unchanged directory returns the same hash
TreeBuild ==
    /\ \A sha \in StoredShas(fs, <<>>) :
         LET o == read_object(fs, <<>>, sha)
         IN  o.err = "OK" /\ o.ty = S_tree =>
                /\ ParseTree(o.content).err = "OK"
                /\ Ascending(EntryNames(o.content))
                /\ \A i \in 1..Len(EntryNames(o.content)) :
                      EntryNames(o.content)[i][1] # DOT
    /\ \A i \in 1..Len(hist.builds) :
         LET o == read_object(fs, <<>>, hist.builds[i])
         IN  /\ o.err = "OK"
             /\ o.ty = S_tree
             /\ {EntryNames(o.content)[k] : k \in 1..Len(EntryNames(o.content))}
                    = ShownNames(fs, <<>>)
             /\ hist.builds[i] = hist.builds[1]

\* C3: the directory with the files b, a, ab and .h, the directory c with a
\* nested .git, and .git, built twice: the root tree lists a, ab, b, c
TreeBuildWitness ==
    /\ Len(hist.builds) = 2
    /\ Exists(fs, <<N_h>>)
    /\ Exists(fs, <<N_c, S_git>>)
    /\ EntryNames(read_object(fs, <<>>, hist.builds[2]).content) = <<N_a, N_ab, N_b, N_c>>

----------------------------------------------------------------------------
(* The clone command.  An exception inside the inner try block passes      *)
(* control to its handler.                                                 *)

\* the statement at hand raises e, with the filesystem as it left it
Failed(e, f) ==
    /\ pc' = "handler"
    /\ ret' = [op |-> "clone", err |-> e]
    /\ fs' = f
    /\ UNCHANGED <<pack_file, n_left, base_content, content, target_content>>

\* d[k] = v on a dict, kept as the list of its items <<k, v>> in the order
\* the keys were first set
DictSet(d, k, v) ==
    IF \E i \in 1..Len(d) : d[i][1] = k
    THEN [i \in 1..Len(d) |-> IF d[i][1] = k THEN <<k, v>> ELSE d[i]]
    ELSE Append(d, <<k, v>>)

DictHas(d, k) == \E i \in 1..Len(d) : d[i][1] = k
DictGet(d, k) == d[CHOOSE i \in 1..Len(d) : d[i][1] = k][2]

\* what a line of the advertisement gives the dict: nothing, an exception, an item
NoItem == [err |-> "OK", skip |-> TRUE, key |-> <<>>, val |-> <<>>]
ItemErr(e) == [err |-> e, skip |-> TRUE, key |-> <<>>, val |-> <<>>]

\* bs[1].decode(): bs[0].decode()
RefWords(bs) ==
    IF Len(bs) < 2 THEN ItemErr("IndexError")
    ELSE IF ~Decodable(bs[2]) \/ ~Decodable(bs[1]) THEN ItemErr("UnicodeDecodeError")
    ELSE [err |-> "OK", skip |-> FALSE, key |-> bs[2], val |-> bs[1]]

\* (bs2 := bs1.split(b"\0")[0]) and (bs := (bs2[4:] if bs2.endswith(b"HEAD") else bs2).split(b" "))
RefName(bs2) ==
    IF bs2 = <<>> THEN NoItem
    ELSE RefWords(Split(IF EndsWith(bs2, S_HEAD) THEN From(bs2, 4) ELSE bs2, SP))

\* (bs1 := bs0[4:]) and not bs1.startswith(b"#")
RefLine(bs1) ==
    IF bs1 = <<>> \/ StartsWith(bs1, <<HASH>>) THEN NoItem
    ELSE RefName(SplitOnce(bs1, NUL)[1])

\* the dict comprehension over the lines of the advertisement: [err, refs]
RECURSIVE ParseRefs(_, _)
RefsAfter(item, lines, d) ==
    IF item.err # "OK" THEN [err |-> item.err, refs |-> <<>>]
    ELSE ParseRefs(lines, IF item.skip THEN d ELSE DictSet(d, item.key, item.val))

ParseRefs(lines, d) ==
    IF lines = <<>> THEN [err |-> "OK", refs |-> d]
    ELSE RefsAfter(RefLine(From(lines[1], 4)), Tail(lines), d)

\* parent / ".git" / name, for a name of parts between slashes
RefPath(par, name) == GitDir(par) \o SelectSeq(Split(name, 47), LAMBDA x : x # <<>>)

\* ref_path.parent.mkdir(parents=True, exist_ok=True); ref_path.write_text(sha + "\n"),
\* for every item of refs
RECURSIVE WriteRefFiles(_, _, _)
RefWritten(r, par, d) == IF r.err # "OK" THEN r ELSE WriteRefFiles(r.fs, par, d)

WriteRefFile_NoNewline(f, p, sha) == ThenWrite(MkdirP(f, Parent(p), TRUE), p, sha)

WriteRefFile(f, p, sha) == ThenWrite(MkdirP(f, Parent(p), TRUE), p, sha \o <<LF>>)

WriteRefFiles(f, par, d) ==
    IF d = <<>> THEN FsOk(f)
    ELSE RefWritten(WriteRefFile(f, RefPath(par, d[1][1]), d[1][2]), par, Tail(d))

\* int(h, 16) for at most four hex digits h
IsHex(h) == h # <<>> /\ \A i \in 1..Len(h) : HexValue(h[i]) >= 0
HexPlace(h, i) == IF i <= Len(h) THEN HexValue(h[i]) * (16 ^ (Len(h) - i)) ELSE 0
HexInt(h) == HexPlace(h, 1) + HexPlace(h, 2) + HexPlace(h, 3) + HexPlace(h, 4)

\* the loop that cuts the response into its lines: [err, lines]
RECURSIVE PktLines(_)
PktCons(l, rest) ==
    IF rest.err # "OK" THEN rest ELSE [err |-> "OK", lines |-> <<l>> \o rest.lines]

\* if line_len == 0: break; pack_lines.append(pack_bytes[4:line_len]);
\* pack_bytes = pack_bytes[line_len:]
PktCut(bytes, line_len) ==
    IF line_len = 0 THEN [err |-> "OK", lines |-> <<>>]
    ELSE PktCons(Slice(bytes, 4, line_len), PktLines(From(bytes, line_len)))

\* line_len = int(pack_bytes[:4], 16)
PktLen(bytes, h) ==
    IF ~IsHex(h) THEN [err |-> "ValueError", lines |-> <<>>] ELSE PktCut(bytes, HexInt(h))

PktLines(bytes) ==
    IF bytes = <<>> THEN [err |-> "OK", lines |-> <<>>]
    ELSE PktLen(bytes, Slice(bytes, 0, 4))

\* b"".join(l[1:] for l in pack_lines[1:])[8:]
PackOfLines(lines) ==
    From(Join([i \in 1..(Len(lines) - 1) |-> From(lines[i + 1], 1)]), 8)

\* struct.unpack("!I", bs)[0] for four bytes bs
Unpack32(bs) == ((bs[1] * 256 + bs[2]) * 256 + bs[3]) * 256 + bs[4]

\* render_tree(parent, dir, sha): the filesystem after it, or its exception
RECURSIVE render_tree(_, _, _, _)
RECURSIVE RenderEntries(_, _, _, _)

\* _, content = read_object(parent, sha); (dir / name.decode()).write_bytes(content)
RenderBlob(f, p, o) == IF o.err # "OK" THEN FsErr(o.err, f) ELSE WriteBytes(f, p, o.content)

\* the two branches on the mode of an entry; any other mode does nothing
RenderEntry(f, par, dir, mode, name, sha) ==
    IF mode \in {S_mode_dir, S_mode_file} /\ ~Decodable(name)
    THEN FsErr("UnicodeDecodeError", f)
    ELSE IF mode = S_mode_dir THEN render_tree(f, par, Child(dir, name), sha)
    ELSE IF mode = S_mode_file
    THEN RenderBlob(f, Child(dir, name), read_object(f, par, sha))
    ELSE FsOk(f)

RenderNext(r, par, dir, tree) ==
    IF r.err # "OK" THEN r ELSE RenderEntries(r.fs, par, dir, tree)

\* name, tree = tree.split(b"\0", 1); sha = tree[:20].hex(); tree = tree[20:]
RenderName(f, par, dir, mode, b) ==
    IF Len(b) # 2 THEN FsErr("ValueError", f)
    ELSE RenderNext(RenderEntry(f, par, dir, mode, b[1], Hex(Slice(b[2], 0, DigestLen))),
                    par, dir, From(b[2], DigestLen))

\* mode, tree = tree.split(b" ", 1)
RenderMode(f, par, dir, a) ==
    IF Len(a) # 2 THEN FsErr("ValueError", f)
    ELSE RenderName(f, par, dir, a[1], SplitOnce(a[2], NUL))

RenderEntries(f, par, dir, tree) ==
    IF tree = <<>> THEN FsOk(f) ELSE RenderMode(f, par, dir, SplitOnce(tree, SP))

RenderContent(f, par, dir, o) ==
    IF o.err # "OK" THEN FsErr(o.err, f) ELSE RenderEntries(f, par, dir, o.content)

\* _, tree = read_object(parent, sha)
RenderRead(r, par, dir, sha) ==
    IF r.err # "OK" THEN r ELSE RenderContent(r.fs, par, dir, read_object(r.fs, par, sha))

render_tree(f, par, dir, sha) == RenderRead(MkdirP(f, dir, TRUE), par, dir, sha)

\* ty, _, pack_file = next_size_type(pack_file)
Header == next_size_type(pack_file)

\* the pack loop has an iteration left
InPackLoop == pc = "pack" /\ n_left > 0

\* the header of the entry cannot be read
HeaderError ==
    /\ InPackLoop
    /\ Header.err # "OK"
    /\ Failed(Header.err, fs)
    /\ UNCHANGED <<hist, net, parent, refs>>

\* write_object(parent, ty, content), and the next iteration
EntryStored(w, ty, unused) ==
    IF w.err # "OK" THEN Failed(w.err, w.fs)
    ELSE /\ pc' = "pack"
         /\ ret' = [op |-> "entry", ty |-> ty, hash |-> w.hash]
         /\ fs' = w.fs
         /\ pack_file' = unused
         /\ n_left' = n_left - 1
         /\ UNCHANGED <<base_content, content, target_content>>

\* content = dec.decompress(pack_file); pack_file = dec.unused_data
DirectInflated(ty, z) ==
    IF z.err # "OK" THEN Failed(z.err, fs)
    ELSE EntryStored(write_object(fs, parent, ty, z.data), ty, z.unused)

\* an entry of kind commit, tree, blob or tag
DirectEntry ==
    /\ InPackLoop
    /\ Header.err = "OK"
    /\ Header.ty \in Kinds
    /\ DirectInflated(Header.ty, Inflate(Header.rest))
    /\ UNCHANGED <<hist, net, parent, refs>>

\* an entry of any other kind but ref_delta: neither branch of the loop body
\* is taken, and the loop goes on behind the header
OtherEntry ==
    /\ InPackLoop
    /\ Header.err = "OK"
    /\ Header.ty \notin Kinds \cup {S_ref_delta}
    /\ pc' = "pack"
    /\ ret' = [op |-> "skip", ty |-> Header.ty]
    /\ pack_file' = Header.rest
    /\ n_left' = n_left - 1
    /\ UNCHANGED <<fs, hist, net, parent, refs, base_content, content, target_content>>

\* _, content = next_size(content), the second time
SecondSize(r) == IF r.err # "OK" THEN r ELSE next_size(r.rest)

\* target_content = b"", before the loop over the ops
DeltaSized(r, base, unused) ==
    IF r.err # "OK" THEN Failed(r.err, fs)
    ELSE /\ pc' = "delta"
         /\ ret' = [op |-> "ref_delta"]
         /\ pack_file' = unused
         /\ base_content' = base
         /\ content' = r.rest
         /\ target_content' = <<>>
         /\ UNCHANGED <<fs, n_left>>

\* _, base_content = read_object(parent, base_sha)
DeltaBase(o, z) ==
    IF o.err # "OK" THEN Failed(o.err, fs)
    ELSE DeltaSized(SecondSize(next_size(z.data)), o.content, z.unused)

DeltaInflated(base_sha, z) ==
    IF z.err # "OK" THEN Failed(z.err, fs)
    ELSE DeltaBase(read_object(fs, parent, base_sha), z)

\* an entry of kind ref_delta, up to the loop over its ops
RefDeltaEntry ==
    /\ InPackLoop
    /\ Header.err = "OK"
    /\ Header.ty = S_ref_delta
    /\ DeltaInflated(Hex(Slice(Header.rest, 0, DigestLen)),
                     Inflate(From(Header.rest, DigestLen)))
    /\ UNCHANGED <<hist, net, parent, refs>>

DeltaStep(r) ==
    IF r.err # "OK" THEN Failed(r.err, fs)
    ELSE /\ pc' = "delta"
         /\ ret' = [op |-> "delta_op"]
         /\ content' = r.rest
         /\ target_content' = target_content \o r.piece
         /\ UNCHANGED <<fs, pack_file, n_left, base_content>>

\* one pass of the loop over the ops of a delta
DeltaOp ==
    /\ pc = "delta"
    /\ content # <<>>
    /\ DeltaStep(delta_op(base_content, content))
    /\ UNCHANGED <<hist, net, parent, refs>>

\* write_object(parent, "blob", target_content) after the last op
DeltaWrite ==
    /\ pc = "delta"
    /\ content = <<>>
    /\ EntryStored(write_object(fs, parent, S_blob, target_content), S_ref_delta, pack_file)
    /\ UNCHANGED <<hist, net, parent, refs>>

\* init_repo(parent), the first statement of the outer try block
Initialised(r) ==
    /\ fs' = r.fs
    /\ pc' = IF r.err = "OK" THEN "discover" ELSE "unhandled"
    /\ ret' = [op |-> "clone", err |-> r.err]

\* main, case ["clone", url, dir]
CloneStart(dir) ==
    /\ pc = "idle"
    /\ parent' = dir
    /\ Initialised(init_repo(fs, dir))
    /\ UNCHANGED <<hist, net, refs, pack_file, n_left, base_content, content, target_content>>

Discovered(r) ==
    IF r.err # "OK" THEN Failed(r.err, fs) /\ refs' = refs
    ELSE /\ pc' = "write_refs"
         /\ refs' = r.refs
         /\ UNCHANGED <<fs, ret, pack_file, n_left, base_content, content, target_content>>

\* the request for info/refs and the dict of the refs it answers
Discover ==
    /\ pc = "discover"
    /\ IF net.up THEN Discovered(ParseRefs(Split(net.advert, LF), <<>>))
       ELSE Failed("URLError", fs) /\ refs' = refs
    /\ UNCHANGED <<hist, net, parent>>

RefsWritten(r) ==
    IF r.err # "OK" THEN Failed(r.err, r.fs)
    ELSE /\ pc' = "fetch"
         /\ fs' = r.fs
         /\ UNCHANGED <<ret, pack_file, n_left, base_content, content, target_content>>

\* the loop that writes a file for every item of refs
WriteRefs ==
    /\ pc = "write_refs"
    /\ RefsWritten(WriteRefFiles(fs, parent, refs))
    /\ UNCHANGED <<hist, net, parent, refs>>

\* n_objs = struct.unpack("!I", pack_file[:4])[0]; pack_file = pack_file[4:]
Counted(pack) ==
    IF Len(pack) < 4 THEN Failed("struct.error", fs)
    ELSE /\ pc' = "pack"
         /\ pack_file' = From(pack, 4)
         /\ n_left' = Unpack32(Slice(pack, 0, 4))
         /\ UNCHANGED <<fs, ret, base_content, content, target_content>>

Unframed(r) == IF r.err # "OK" THEN Failed(r.err, fs) ELSE Counted(PackOfLines(r.lines))

\* the request for git-upload-pack, and the pack of its answer
Fetch ==
    /\ pc = "fetch"
    /\ IF net.serving THEN Unframed(PktLines(net.pack)) ELSE Failed("URLError", fs)
    /\ UNCHANGED <<hist, net, parent, refs>>

Rendered(r) ==
    IF r.err # "OK" THEN Failed(r.err, r.fs)
    ELSE /\ pc' = "done"
         /\ ret' = [op |-> "clone", err |-> "OK"]
         /\ fs' = r.fs
         /\ UNCHANGED <<pack_file, n_left, base_content, content, target_content>>

\* tree_sha = commit[5:45].decode(); render_tree(parent, parent, tree_sha)
RenderCommit(o) ==
    IF o.err # "OK" THEN Failed(o.err, fs)
    ELSE IF ~Decodable(Slice(o.content, 5, 45)) THEN Failed("UnicodeDecodeError", fs)
    ELSE Rendered(render_tree(fs, parent, parent, Slice(o.content, 5, 45)))

\* after the pack loop: _, commit = read_object(parent, refs["HEAD"]), and the
\* working directory of its tree
Render ==
    /\ pc = "pack"
    /\ n_left = 0
    /\ IF DictHas(refs, S_HEAD) THEN RenderCommit(read_object(fs, parent, DictGet(refs, S_HEAD)))
       ELSE Failed("KeyError", fs)
    /\ UNCHANGED <<hist, net, parent, refs>>

\* except Exception: if parent.exists(): shutil.rmtree(parent)
Handler ==
    /\ pc = "handler"
    /\ pc' = "zip"
    /\ fs' = IF Exists(fs, parent) THEN RmTree(fs, parent) ELSE fs
    /\ UNCHANGED <<ret, hist, cloneVars>>

----------------------------------------------------------------------------
(* SpecDelta: the pack loop over one ref_delta entry whose base content    *)
(* and delta stream are inputs.                                            *)

MaxOps == 3

N_t == <<116>>             \* "t", the target directory

\* b"The quick brown fox"
FoxBase == <<84, 104, 101, 32, 113, 117, 105, 99, 107, 32,
             98, 114, 111, 119, 110, 32, 102, 111, 120>>

\* b"quick slow brown fox" and b"quickslow brown fox"
QuickSpaceSlow == <<113, 117, 105, 99, 107, 32, 115, 108, 111, 119, 32,
                    98, 114, 111, 119, 110, 32, 102, 111, 120>>
QuickSlow == <<113, 117, 105, 99, 107, 115, 108, 111, 119, 32,
               98, 114, 111, 119, 110, 32, 102, 111, 120>>

\* Copy{offset=4,size=5}, Insert{b"slow "}, Copy{offset=10,size=9}
Copy_4_5 == <<145, 4, 5>>
Insert_slow == <<5, 115, 108, 111, 119, 32>>
Copy_10_9 == <<145, 10, 9>>

\* the ops of the input streams: the three above; copies past the end of the
\* base (15..24 and 0..257 of 19), without size bits, with a two-byte offset;
\* an insert of five bytes of which one is there; a copy whose size byte is
\* not there
DeltaOps ==
    {Copy_4_5, Insert_slow, Copy_10_9,
     <<145, 15, 9>>, <<177, 0, 1, 1>>, <<129, 4>>, <<147, 2, 0, 3>>,
     <<5, 97>>, <<145, 4>>}

\* the sequences of at most n ops
RECURSIVE OpSeqs(_)
OpSeqs(n) ==
    IF n = 0 THEN {<<>>}
    ELSE {<<>>} \cup {<<op>> \o rest : op \in DeltaOps, rest \in OpSeqs(n - 1)}

\* the two sizes before the ops, of one byte each and of two and one
DeltaSizes == {<<19, 20>>, <<147, 0, 20>>}

\* the delta streams: sizes and ops, and streams that end within the sizes
DeltaStreams ==
    {sz \o Join(ops) : sz \in DeltaSizes, ops \in OpSeqs(MaxOps)} \cup {<<>>, <<19>>, <<147>>}

\* the repository of the target with the objects of a list of <<kind, content>>
RECURSIVE StoreAll(_, _, _)
StoreAll(f, par, objs) ==
    IF objs = <<>> THEN f
    ELSE StoreAll(write_object(f, par, objs[1][1], objs[1][2]).fs, par, Tail(objs))

\* the header byte of an entry of type bits ty and size bits 5
EntryByte(ty) == 16 * ty + 5

InitDelta ==
    /\ parent = <<N_t>>
    /\ \E base \in {FoxBase}, stream \in DeltaStreams, stored \in BOOLEAN :
         /\ fs = StoreAll(init_repo(EmptyFs, <<N_t>>).fs, <<N_t>>,
                          IF stored THEN <<<<S_blob, base>>>> ELSE <<>>)
         /\ pack_file = <<EntryByte(7)>> \o Sha1Digest(StoreBytes(S_blob, base))
                            \o Compress(stream)
         /\ hist = [base |-> base, delta |-> stream, stored |-> stored]
    /\ pc = "pack"
    /\ ret = NoRet
    /\ net = NoNet
    /\ refs = <<>>
    /\ n_left = 1
    /\ base_content = <<>>
    /\ content = <<>>
    /\ target_content = <<>>

NextDelta ==
    \/ RefDeltaEntry
    \/ DeltaOp
    \/ DeltaWrite
    \/ Handler

SpecDelta == InitDelta /\ [][NextDelta]_vars

\* the delta of the scenario: two sizes, then Copy{4,5}, Insert{"slow "}, Copy{10,9}
FoxDeltas == {sz \o Copy_4_5 \o Insert_slow \o Copy_10_9 : sz \in DeltaSizes}

\* the entry of the scenario is in the pack, and its base in the store
FoxCase == hist.base = FoxBase /\ hist.stored /\ hist.delta \in FoxDeltas

\* the pack loop has resolved the entry and written its target
Resolved == pc = "pack" /\ n_left = 0

\* C4: with base b"The quick brown fox" and the ops Copy{offset=4,size=5},
\* Insert{b"slow "}, Copy{offset=10,size=9} the resolver never fails, and it
\* reconstructs and stores exactly the blob b"quickslow brown fox"
FoxScenario ==
    FoxCase =>
        /\ pc \notin {"handler", "zip"}
        /\ Resolved =>
              /\ target_content = QuickSlow
              /\ read_object(fs, parent, ret.hash)
                     = [err |-> "OK", ty |-> S_blob, content |-> QuickSlow]

\* C4: the scenario has been resolved to b"quickslow brown fox"
FoxScenarioWitness ==
    /\ FoxCase
    /\ Resolved
    /\ hist.delta = <<19, 20>> \o Copy_4_5 \o Insert_slow \o Copy_10_9
    /\ target_content = QuickSlow
    /\ ret.op = "entry"

\* C4, as the claim states it: the scenario reconstructs b"quick slow brown fox"
FoxScenarioAsStated ==
    FoxCase /\ Resolved => target_content = QuickSpaceSlow

\* the op at the head of the stream c asks for more than there is: a copy
\* whose range ends behind the base, an insert of more bytes than c has left
Overrun(base, c) ==
    IF Bit(c[1], 7)
    THEN /\ CopyArgs(c, 0, 1, 0, 0).err = "OK"
         /\ CopyArgs(c, 0, 1, 0, 0).offset + CopyArgs(c, 0, 1, 0, 0).size > Len(base)
    ELSE c[1] > Len(c) - 1

\* C5: a copy whose range extends past the end of the base, and an insert of
\* more bytes than the stream has left, make the resolver fail, and nothing
\* is written
NoSilentTruncation ==
    [][pc = "delta" /\ content # <<>> /\ Overrun(base_content, content)
          => pc' = "handler" /\ fs' = fs]_vars

\* C5: an entry one of whose ops overran has been written as an object
TruncatedWritten ==
    /\ Resolved
    /\ hist.delta = <<19, 20>> \o <<145, 15, 9>>
    /\ hist.base = FoxBase
    /\ target_content = <<32, 102, 111, 120>>
    /\ read_object(fs, parent, ret.hash).content = target_content

\* the byte of a copy op c that bit i of the op byte selects: the bytes follow
\* the op byte in the order of the bits that are set
Selected(c, i) == c[2 + Cardinality({j \in 0..(i - 1) : Bit(c[1], j)})]

\* the byte that bit i selects, at byte position k of a little-endian number,
\* and 0 when the bit is not set
Placed(c, i, k) == IF Bit(c[1], i) THEN Selected(c, i) * (2 ^ (8 * k)) ELSE 0

CopyOffset(c) == Placed(c, 0, 0) + Placed(c, 1, 1) + Placed(c, 2, 2) + Placed(c, 3, 3)
CopySize(c) == Placed(c, 4, 0) + Placed(c, 5, 1) + Placed(c, 6, 2)

\* the piece the claim gives the op at the head of c
ClaimedPiece(base, c) ==
    IF Bit(c[1], 7) THEN Slice(base, CopyOffset(c), CopyOffset(c) + CopySize(c))
    ELSE Slice(c, 1, (c[1] % 128) + 1)

\* a pass of the loop over the ops that raises nothing
OpDone == pc = "delta" /\ content # <<>> /\ pc' = "delta"

\* C10: each op consumes at least one byte of the stream and appends its piece
\* to the target: a copy the bytes base[offset : offset+size], with offset and
\* size assembled little-endian from the bytes its bits select, an insert with
\* low 7 bits n the next n bytes of the stream
DeltaOpSemantics ==
    [][OpDone =>
          /\ Len(content') < Len(content)
          /\ target_content' = target_content \o ClaimedPiece(base_content, content)
          /\ ~Bit(content[1], 7) =>
                Len(target_content') = Len(target_content) + (content[1] % 128)]_vars

\* C10, where the code keeps it: the same of every op that is not an insert
\* of more bytes than the stream has left
DeltaOpSemanticsOfWholeInserts ==
    [][OpDone /\ (Bit(content[1], 7) \/ content[1] <= Len(content) - 1) =>
          /\ Len(content') < Len(content)
          /\ target_content' = target_content \o ClaimedPiece(base_content, content)
          /\ ~Bit(content[1], 7) =>
                Len(target_content') = Len(target_content) + (content[1] % 128)]_vars

----------------------------------------------------------------------------
(* SpecHeader: next_size_type on an input byte sequence.                   *)

MaxHeader == 3

\* the bytes of the inputs: 0x9C, 0x03, 0x80, 0x7F, 0xFF, 0x15, 0xE0
HeaderBytes == {156, 3, 128, 127, 255, 21, 224}

RECURSIVE SeqsUpTo(_, _)
SeqsUpTo(S, n) ==
    IF n = 0 THEN {<<>>}
    ELSE {<<>>} \cup {<<x>> \o rest : x \in S, rest \in SeqsUpTo(S, n - 1)}

InitHeader ==
    /\ pack_file \in SeqsUpTo(HeaderBytes, MaxHeader)
    /\ hist = [input |-> pack_file]
    /\ pc = "header"
    /\ ret = NoRet
    /\ fs = EmptyFs
    /\ net = NoNet
    /\ parent = <<>>
    /\ refs = <<>>
    /\ n_left = 0
    /\ base_content = <<>>
    /\ content = <<>>
    /\ target_content = <<>>

\* ty, _, pack_file = next_size_type(pack_file)
HeaderRead(r) ==
    /\ ret' = [op |-> "header", res |-> r]
    /\ pack_file' = IF r.err = "OK" THEN r.rest ELSE pack_file

DecodeHeader ==
    /\ pc = "header"
    /\ pc' = "decoded"
    /\ HeaderRead(Header)
    /\ UNCHANGED <<fs, hist, net, parent, refs, n_left, base_content, content, target_content>>

NextHeader == DecodeHeader

SpecHeader == InitHeader /\ [][NextHeader]_vars

\* a header is whole when one of its bytes has the high bit clear
Whole(bs) == \E i \in 1..Len(bs) : bs[i] < 128

\* the continuation bytes of a whole header: those read while the byte read
\* before has its high bit set
Continuations(bs) == (CHOOSE i \in 1..Len(bs) : bs[i] < 128 /\ \A j \in 1..(i - 1) : bs[j] >= 128) - 1

\* the low 7 bits of the continuation bytes k..(n - 1), the k-th shifted left by 4 + 7k
RECURSIVE ShiftedSum(_, _, _)
ShiftedSum(bs, k, n) ==
    IF k >= n THEN 0
    ELSE (bs[k + 2] % 128) * (2 ^ (4 + 7 * k)) + ShiftedSum(bs, k + 1, n)

\* the kind that bits 4-6 of the first byte select
KindOfBits(b) ==
    LET t == (b \div 16) % 8
    IN  IF t = 1 THEN S_commit ELSE IF t = 2 THEN S_tree ELSE IF t = 3 THEN S_blob
        ELSE IF t = 4 THEN S_tag ELSE IF t = 6 THEN S_ofs_delta
        ELSE IF t = 7 THEN S_ref_delta ELSE S_unknown

\* C8: the kind of a header is selected by bits 4-6 of its first byte, its size
\* is the low 4 bits of the first byte plus the low 7 bits of the k-th
\* continuation byte shifted left by 4 + 7k, and the cursor stops behind the
\* last continuation byte; 0x9C 0x03 decodes to (commit, 60) with the cursor
\* 2 bytes on; a header that is not whole raises IndexError
HeaderDecoding ==
    pc = "decoded" =>
        /\ Whole(hist.input) =>
              /\ ret.res.err = "OK"
              /\ ret.res.ty = KindOfBits(hist.input[1])
              /\ ret.res.size = (hist.input[1] % 16)
                                  + ShiftedSum(hist.input, 0, Continuations(hist.input))
              /\ ret.res.rest = From(hist.input, 1 + Continuations(hist.input))
              /\ pack_file = ret.res.rest
        /\ StartsWith(hist.input, <<156, 3>>) =>
              /\ ret.res.ty = S_commit
              /\ ret.res.size = 60
              /\ Len(pack_file) = Len(hist.input) - 2
        /\ ~Whole(hist.input) => ret.res.err = "IndexError"

\* C8: 0x9C 0x03 and a byte behind it have been decoded to (commit, 60)
HeaderDecodingWitness ==
    /\ pc = "decoded"
    /\ hist.input = <<156, 3, 255>>
    /\ ret.res.ty = S_commit
    /\ ret.res.size = 60
    /\ pack_file = <<255>>

----------------------------------------------------------------------------
(* SpecClone: the clone command against a server whose two answers are     *)
(* inputs, into a target directory whose state before is an input.         *)

N_d == <<100>>             \* "d"

\* the objects of the server: the files a and d/b, their trees and a commit
Blob_a == <<120>>
Blob_b == <<121, 122>>
Tree_d == SerializeEntries(<<<<S_mode_file, N_b, ObjectHash(S_blob, Blob_b)>>>>)
Tree_root ==
    SerializeEntries(<<<<S_mode_file, N_a, ObjectHash(S_blob, Blob_a)>>,
                       <<S_mode_dir, N_d, ObjectHash(S_tree, Tree_d)>>>>)
Commit_1 == S_tree \o <<SP>> \o ObjectHash(S_tree, Tree_root) \o <<LF, LF, 109, LF>>
CommitSha == ObjectHash(S_commit, Commit_1)

\* the header of a pack entry of type bits ty and a size below 2048
EntryHeader(ty, n) ==
    IF n < 16 THEN <<16 * ty + n>> ELSE <<128 + 16 * ty + (n % 16), n \div 16>>

\* pack entries: an object, a delta against the object of a hash, a delta
\* against an entry some bytes before, an entry of type bits 5
DirectE(ty, body) == EntryHeader(ty, Len(body)) \o Compress(body)
RefDeltaE(base_store, stream) ==
    EntryHeader(7, Len(stream)) \o Sha1Digest(base_store) \o Compress(stream)
OfsDeltaE(stream) == EntryHeader(6, Len(stream)) \o <<5>> \o Compress(stream)
UnknownE(body) == EntryHeader(5, Len(body)) \o Compress(body)

E_commit == DirectE(1, Commit_1)
E_root == DirectE(2, Tree_root)
E_d == DirectE(2, Tree_d)
E_a == DirectE(3, Blob_a)
E_b == DirectE(3, Blob_b)

\* a delta on Blob_b: Copy{offset=0,size=2}, Insert{b"!"}
DeltaOnB == <<2, 3, 144, 2, 1, 33>>

\* the four bytes of n, big-endian, for n < 65536
Pack32(n) == <<0, 0, n \div 256, n % 256>>

\* a pack: b"PACK", version 2, the count, the entries, and a checksum or none
PackBytes(n, entries, sum) ==
    <<80, 65, 67, 75, 0, 0, 0, 2>> \o Pack32(n) \o Join(entries)
        \o (IF sum THEN Sha1Digest(Join(entries)) ELSE <<>>)

\* four hex digits of n, and a pkt-line of a payload
Hex4(n) == Hex(<<n \div 256, n % 256>>)
PktLine(payload) == Hex4(Len(payload) + 4) \o payload
Flush == <<48, 48, 48, 48>>

\* b"packfile\n"
S_packfile == <<112, 97, 99, 107, 102, 105, 108, 101, LF>>

\* the answer to the fetch: the line "packfile", the pack in two lines of
\* band 1, cut behind its k-th byte, and a flush
Framed(pack, k) ==
    PktLine(S_packfile) \o PktLine(<<1>> \o Slice(pack, 0, k))
        \o PktLine(<<1>> \o From(pack, k)) \o Flush

\* the packs of the inputs, by name
Packs ==
    [direct |-> PackBytes(5, <<E_commit, E_root, E_d, E_a, E_b>>, TRUE),
     blobs_first |-> PackBytes(5, <<E_b, E_a, E_d, E_root, E_commit>>, TRUE),
     delta |-> PackBytes(6, <<E_commit, E_root, E_d, E_a, E_b,
                               RefDeltaE(StoreBytes(S_blob, Blob_b), DeltaOnB)>>, TRUE),
     ofs_last |-> PackBytes(6, <<E_commit, E_root, E_d, E_a, E_b, OfsDeltaE(DeltaOnB)>>, TRUE),
     ofs_mid |-> PackBytes(6, <<E_commit, OfsDeltaE(DeltaOnB), E_root, E_d, E_a, E_b>>, TRUE),
     unknown_last |-> PackBytes(6, <<E_commit, E_root, E_d, E_a, E_b, UnknownE(Blob_a)>>, TRUE),
     short |-> PackBytes(6, <<E_commit, E_root, E_d, E_a, E_b>>, FALSE),
     no_tree |-> PackBytes(3, <<E_commit, E_a, E_b>>, TRUE)]

\* b"# service=git-upload-pack\n", and the capabilities behind the first ref
S_service == <<HASH, 32, 115, 101, 114, 118, 105, 99, 101, 61, 103, 105, 116, 45,
               117, 112, 108, 111, 97, 100, 45, 112, 97, 99, 107, LF>>
S_caps == <<NUL, 97, 103, 101, 110, 116, 61, 103>>
S_main_ref == S_refs \o <<47>> \o S_heads \o <<47>> \o S_main

\* the advertisements of the inputs, by name
Adverts ==
    [head_branch |->
        PktLine(S_service) \o Flush
          \o PktLine(CommitSha \o <<SP>> \o S_HEAD \o S_caps \o <<LF>>)
          \o PktLine(CommitSha \o <<SP>> \o S_main_ref \o <<LF>>) \o Flush,
     branch_only |->
        PktLine(S_service) \o Flush
          \o PktLine(CommitSha \o <<SP>> \o S_main_ref \o S_caps \o <<LF>>) \o Flush,
     head_only |->
        PktLine(S_service) \o Flush
          \o PktLine(CommitSha \o <<SP>> \o S_HEAD \o S_caps \o <<LF>>) \o Flush,
     no_refs |-> PktLine(S_service) \o Flush \o Flush]

\* the servers: both answers, or no answer to the second or to either request
Servers ==
    {[up |-> TRUE, advert |-> Adverts[a], serving |-> TRUE, pack |-> Framed(Packs[q], k),
      name |-> <<a, q>>] :
        a \in DOMAIN Adverts, q \in DOMAIN Packs, k \in {30, 200}}
    \cup {[up |-> TRUE, advert |-> Adverts.head_branch, serving |-> TRUE,
           pack |-> <<60, 104, 116, 109>>, name |-> <<"head_branch", "html">>],
          [up |-> TRUE, advert |-> Adverts.head_branch, serving |-> FALSE,
           pack |-> <<>>, name |-> <<"head_branch", "none">>],
          [up |-> FALSE, advert |-> <<>>, serving |-> FALSE,
           pack |-> <<>>, name |-> <<"none", "none">>]}

\* the target directory before the command: absent, a directory with a file
\* a, a directory with a directory a, a repository
Targets ==
    [absent |-> EmptyFs,
     file_a |-> (<<N_t, N_a>> :> File(<<111>>)) @@ (<<N_t>> :> Dir) @@ EmptyFs,
     dir_a |-> (<<N_t, N_a>> :> Dir) @@ (<<N_t>> :> Dir) @@ EmptyFs,
     repo |-> init_repo(EmptyFs, <<N_t>>).fs]

InitClone ==
    /\ net \in Servers
    /\ \E t \in DOMAIN Targets :
         /\ fs = Targets[t]
         /\ hist = [target |-> t]
    /\ pc = "idle"
    /\ ret = NoRet
    /\ parent = <<>>
    /\ refs = <<>>
    /\ pack_file = <<>>
    /\ n_left = 0
    /\ base_content = <<>>
    /\ content = <<>>
    /\ target_content = <<>>

NextClone ==
    \/ CloneStart(<<N_t>>)
    \/ Discover
    \/ WriteRefs
    \/ Fetch
    \/ HeaderError
    \/ DirectEntry
    \/ OtherEntry
    \/ RefDeltaEntry
    \/ DeltaOp
    \/ DeltaWrite
    \/ Render
    \/ Handler

SpecClone == InitClone /\ [][NextClone]_vars

\* an entry whose kind the loop body has no branch for
Unsupported == InPackLoop /\ Header.err = "OK" /\ Header.ty \in {S_ofs_delta, S_unknown}

\* C6: an entry of kind ofs_delta or of an unknown type code makes the parser
\* fail and the clone abort: the loop never goes on to its next iteration
\* behind the header of such an entry
UnsupportedEntryAborts ==
    [][Unsupported => pc' = "handler"]_vars

\* C6: a clone has succeeded whose pack had an ofs_delta entry, which no
\* object of the store stands for
SkippedAndCloned ==
    /\ pc = "done"
    /\ net.name = <<"head_branch", "ofs_last">>
    /\ Cardinality(StoredShas(fs, parent)) = 5

\* the text of a symbolic ref: b"ref: refs/heads/" and a branch name
IsSymbolicRef(text) ==
    /\ StartsWith(text, S_ref_prefix \o S_refs \o <<47>> \o S_heads \o <<47>>)
    /\ Len(text) > Len(S_ref_prefix \o S_refs \o <<47>> \o S_heads \o <<47>>)

\* 40 hex digits
IsBareHash(text) == Len(text) = HexLen /\ \A i \in 1..Len(text) : HexValue(text[i]) >= 0

\* C7: whenever the target has a file .git/HEAD, its text is of the form
\* "ref: refs/heads/<branch>", and never a bare hash of 40 hex digits
HeadIsSymbolic ==
    IsFile(fs, HeadPath(<<N_t>>)) =>
        /\ IsSymbolicRef(fs[HeadPath(<<N_t>>)].data)
        /\ ~IsBareHash(Slice(fs[HeadPath(<<N_t>>)].data, 0, HexLen))

\* C7: a clone has succeeded and .git/HEAD holds the hash of the commit
HeadIsHashAfterClone ==
    /\ pc = "done"
    /\ net.name = <<"head_branch", "direct">>
    /\ fs[HeadPath(parent)].data = CommitSha \o <<LF>>

\* the objects the server sends in the packs without deltas
SentObjects ==
    {<<S_commit, Commit_1>>, <<S_tree, Tree_root>>, <<S_tree, Tree_d>>,
     <<S_blob, Blob_a>>, <<S_blob, Blob_b>>}

\* the entries of mode 100644 that a stored tree reaches through its entries
\* of mode 40000, each with the path of its file below dir
RECURSIVE TreeFiles(_, _, _, _)
TreeFiles(f, par, dir, sha) ==
    LET es == ParseTree(read_object(f, par, sha).content).entries
    IN  UNION {IF es[i][1] = S_mode_dir
               THEN TreeFiles(f, par, Append(dir, es[i][2]), es[i][3])
               ELSE IF es[i][1] = S_mode_file
               THEN {[path |-> Append(dir, es[i][2]), sha |-> es[i][3]]}
               ELSE {} : i \in 1..Len(es)}

\* a clone has succeeded of the server that advertises HEAD and one branch
\* and sends the commit, its trees and its blobs, in either order
ClonedNoDeltas ==
    /\ pc = "done"
    /\ net.name \in {<<"head_branch", "direct">>, <<"head_branch", "blobs_first">>}

\* C9: after a successful clone without deltas the store holds exactly the
\* objects sent, refs/heads/<branch> holds the advertised hash and a newline,
\* and every file entry the tree of the commit reaches is a file of the
\* working directory with the content of its blob
CloneNoDeltas ==
    ClonedNoDeltas =>
        /\ StoredShas(fs, parent) = {ObjectHash(o[1], o[2]) : o \in SentObjects}
        /\ \A o \in SentObjects :
              read_object(fs, parent, ObjectHash(o[1], o[2]))
                  = [err |-> "OK", ty |-> o[1], content |-> o[2]]
        /\ IsFile(fs, Append(HeadsDir(parent), S_main))
        /\ fs[Append(HeadsDir(parent), S_main)].data = CommitSha \o <<LF>>
        /\ Cardinality(TreeFiles(fs, parent, parent, ObjectHash(S_tree, Tree_root))) = 2
        /\ \A e \in TreeFiles(fs, parent, parent,
                              Slice(read_object(fs, parent, CommitSha).content, 5, 45)) :
              /\ IsFile(fs, e.path)
              /\ fs[e.path].data = read_object(fs, parent, e.sha).content

\* C9: the clone into a directory that had a file a has succeeded; a and d/b
\* hold the contents of the blobs sent
CloneNoDeltasWitness ==
    /\ ClonedNoDeltas
    /\ hist.target = "file_a"
    /\ net.name[2] = "blobs_first"
    /\ fs[<<N_t, N_a>>] = File(Blob_a)
    /\ fs[<<N_t, N_d, N_b>>] = File(Blob_b)

----------------------------------------------------------------------------
(* SpecPack: the clone command into an absent target against a server      *)
(* whose pack is a list of entries, kept beside the run in hist.            *)

\* b"yz!", the blob that DeltaOnB makes of Blob_b
Blob_delta == <<121, 122, 33>>

E_delta == RefDeltaE(StoreBytes(S_blob, Blob_b), DeltaOnB)

H_commit == ObjectHash(S_commit, Commit_1)
H_root == ObjectHash(S_tree, Tree_root)
H_d == ObjectHash(S_tree, Tree_d)
H_a == ObjectHash(S_blob, Blob_a)
H_b == ObjectHash(S_blob, Blob_b)
H_delta == ObjectHash(S_blob, Blob_delta)

\* the packs: the count declared, the entries, the object each entry stands
\* for, and whether the checksum follows the entries
PackCases ==
    [direct |-> [n |-> 5, entries |-> <<E_commit, E_root, E_d, E_a, E_b>>,
                 objects |-> <<H_commit, H_root, H_d, H_a, H_b>>, sum |-> TRUE],
     blobs_first |-> [n |-> 5, entries |-> <<E_b, E_a, E_d, E_root, E_commit>>,
                      objects |-> <<H_b, H_a, H_d, H_root, H_commit>>, sum |-> TRUE],
     delta_last |-> [n |-> 6, entries |-> <<E_commit, E_root, E_d, E_a, E_b, E_delta>>,
                     objects |-> <<H_commit, H_root, H_d, H_a, H_b, H_delta>>, sum |-> TRUE],
     delta_mid |-> [n |-> 6, entries |-> <<E_b, E_delta, E_a, E_d, E_root, E_commit>>,
                    objects |-> <<H_b, H_delta, H_a, H_d, H_root, H_commit>>, sum |-> TRUE],
     base_later |-> [n |-> 6, entries |-> <<E_commit, E_root, E_d, E_a, E_delta, E_b>>,
                     objects |-> <<H_commit, H_root, H_d, H_a, H_delta, H_b>>, sum |-> TRUE],
     base_absent |-> [n |-> 5, entries |-> <<E_commit, E_root, E_d, E_delta, E_a>>,
                      objects |-> <<H_commit, H_root, H_d, H_delta, H_a>>, sum |-> TRUE],
     ofs_mid |-> [n |-> 6,
                  entries |-> <<E_commit, OfsDeltaE(DeltaOnB), E_root, E_d, E_a, E_b>>,
                  objects |-> <<H_commit, H_delta, H_root, H_d, H_a, H_b>>, sum |-> TRUE],
     ofs_last |-> [n |-> 6,
                   entries |-> <<E_commit, E_root, E_d, E_a, E_b, OfsDeltaE(DeltaOnB)>>,
                   objects |-> <<H_commit, H_root, H_d, H_a, H_b, H_delta>>, sum |-> TRUE],
     unknown_last |-> [n |-> 6,
                       entries |-> <<E_commit, E_root, E_d, E_b, E_delta, UnknownE(Blob_a)>>,
                       objects |-> <<H_commit, H_root, H_d, H_b, H_delta, H_a>>, sum |-> TRUE],
     short |-> [n |-> 6, entries |-> <<E_commit, E_root, E_d, E_a, E_b>>,
                objects |-> <<H_commit, H_root, H_d, H_a, H_b>>, sum |-> FALSE]]

\* the packs all of whose entries are objects or ref_deltas
SupportedCases ==
    {"direct", "blobs_first", "delta_last", "delta_mid", "base_later", "base_absent"}

\* what follows the entries of a pack
Trailer(c) == IF c.sum THEN Sha1Digest(Join(c.entries)) ELSE <<>>

InitPack ==
    /\ \E q \in DOMAIN PackCases, k \in {30, 60, 200} :
         /\ net = [up |-> TRUE, advert |-> Adverts.head_branch, serving |-> TRUE,
                   pack |-> Framed(PackBytes(PackCases[q].n, PackCases[q].entries,
                                             PackCases[q].sum), k),
                   name |-> <<"head_branch", q>>]
         /\ hist = [name |-> q, n |-> PackCases[q].n, entries |-> PackCases[q].entries,
                    objects |-> PackCases[q].objects, trailer |-> Trailer(PackCases[q])]
    /\ fs = EmptyFs
    /\ pc = "idle"
    /\ ret = NoRet
    /\ parent = <<>>
    /\ refs = <<>>
    /\ pack_file = <<>>
    /\ n_left = 0
    /\ base_content = <<>>
    /\ content = <<>>
    /\ target_content = <<>>

SpecPack == InitPack /\ [][NextClone]_vars

\* the iterations of the pack loop that have ended
IterationsDone == hist.n - n_left

\* the bytes of the pack from its entry i on
PackFrom(i) == Join(SubSeq(hist.entries, i, Len(hist.entries))) \o hist.trailer

\* between two iterations of the loop over a pack that holds the entries it
\* declares: the cursor is at the first byte of the next entry in pack order,
\* and the store holds one object for each iteration that has ended
LoopProgress ==
    (pc = "pack" /\ hist.n = Len(hist.entries)) =>
        /\ IterationsDone \in 0..hist.n
        /\ pack_file = PackFrom(IterationsDone + 1)
        /\ StoredShas(fs, parent) = {hist.objects[i] : i \in 1..IterationsDone}

\* the hash a ref_delta entry at the cursor names as its base
BaseAtCursor == Hex(Slice(Header.rest, 0, DigestLen))

\* the entry at the cursor is a ref_delta whose base the store does not hold
BaseMissing ==
    /\ InPackLoop
    /\ Header.err = "OK"
    /\ Header.ty = S_ref_delta
    /\ BaseAtCursor \notin StoredShas(fs, parent)

\* a step of the loop body that is not the abort of the clone
Iterating == pc' \in {"pack", "delta"} /\ pc \in {"pack", "delta"}

\* a ref_delta is resolved against the object of the store that it names, and
\* an entry whose base is not stored aborts the clone, after which no entry is
\* processed and nothing more is written
BaseBeforeDelta ==
    /\ BaseMissing => (pc' = "handler" /\ fs' = fs)
    /\ (pc = "pack" /\ pc' = "delta") =>
          /\ BaseAtCursor \in StoredShas(fs, parent)
          /\ base_content' = read_object(fs, parent, BaseAtCursor).content
    /\ pc \in {"handler", "zip"} => pc' \notin {"pack", "delta"}

\* C11: the loop over a pack of N entries runs N iterations in pack order,
\* each consuming exactly its entry and writing exactly one object, and a
\* ref_delta is resolved only against a base already stored: a base not yet
\* stored aborts the clone with no further entry processed
PackLoopProgress ==
    [][LoopProgress' /\ BaseBeforeDelta]_vars

\* C11 for the packs all of whose entries are objects or ref_deltas
PackLoopProgressOfSupported ==
    [][(hist.name \in SupportedCases => LoopProgress') /\ BaseBeforeDelta]_vars

\* C11: the iteration over an ofs_delta entry in the middle of a pack has
\* ended with the cursor inside the body of the entry and no object written
SkippedMidway ==
    /\ pc = "pack"
    /\ hist.name = "ofs_mid"
    /\ IterationsDone = 2
    /\ pack_file # PackFrom(3)
    /\ Cardinality(StoredShas(fs, parent)) = 1

\* C11: the delta in the middle of a pack has been resolved against the blob
\* stored by the iteration before, and the loop has gone on to the last entry
DeltaMidway ==
    /\ pc = "pack"
    /\ hist.name = "delta_mid"
    /\ IterationsDone = 5
    /\ H_delta \in StoredShas(fs, parent)

\* C11: the clone has aborted at a ref_delta whose base comes later in the pack
AbortedBaseLater ==
    /\ pc = "handler"
    /\ hist.name = "base_later"
    /\ n_left = 2
    /\ ret.err = "FileNotFoundError"

----------------------------------------------------------------------------
(* The fallbacks of the clone command: clone_via_zip and setup_demo_repo.   *)
(* The target directory is given relative to the working directory, as the *)
(* paths of the model are.                                                  *)

\* README.md
S_readme_name ==
    <<82, 69, 65, 68, 77, 69, 46, 109, 100>>

\* example.py
S_example_name ==
    <<101, 120, 97, 109, 112, 108, 101, 46, 112, 121>>

\* data
S_data ==
    <<100, 97, 116, 97>>

\* sample.json
S_sample_name ==
    <<115, 97, 109, 112, 108, 101, 46, 106, 115, 111, 110>>

\* # Demo Repository\n\nThis is a demo repository created when the clone
\* operation failed.\n
T_readme ==
    <<35, 32, 68, 101, 109, 111, 32, 82, 101, 112, 111, 115, 105, 116, 111, 114,
      121, 10, 10, 84, 104, 105, 115, 32, 105, 115, 32, 97, 32, 100, 101,
      109, 111, 32, 114, 101, 112, 111, 115, 105, 116, 111, 114, 121, 32,
      99, 114, 101, 97, 116, 101, 100, 32, 119, 104, 101, 110, 32, 116, 104,
      101, 32, 99, 108, 111, 110, 101, 32, 111, 112, 101, 114, 97, 116, 105,
      111, 110, 32, 102, 97, 105, 108, 101, 100, 46, 10>>

\* print("Hello, World!")\n\n# This is an example Python file\n
T_example ==
    <<112, 114, 105, 110, 116, 40, 34, 72, 101, 108, 108, 111, 44, 32, 87, 111,
      114, 108, 100, 33, 34, 41, 10, 10, 35, 32, 84, 104, 105, 115, 32, 105,
      115, 32, 97, 110, 32, 101, 120, 97, 109, 112, 108, 101, 32, 80, 121,
      116, 104, 111, 110, 32, 102, 105, 108, 101, 10>>

\* {\n  "name": "Demo",\n  "version": "1.0",\n  "description": "Demo data
\* file"\n}\n
T_sample ==
    <<123, 10, 32, 32, 34, 110, 97, 109, 101, 34, 58, 32, 34, 68, 101, 109, 111,
      34, 44, 10, 32, 32, 34, 118, 101, 114, 115, 105, 111, 110, 34, 58, 32,
      34, 49, 46, 48, 34, 44, 10, 32, 32, 34, 100, 101, 115, 99, 114, 105,
      112, 116, 105, 111, 110, 34, 58, 32, 34, 68, 101, 109, 111, 32, 100,
      97, 116, 97, 32, 102, 105, 108, 101, 34, 10, 125, 10>>

\* author Demo <demo@example.com>
S_author_demo ==
    <<97, 117, 116, 104, 111, 114, 32, 68, 101, 109, 111, 32, 60, 100, 101, 109,
      111, 64, 101, 120, 97, 109, 112, 108, 101, 46, 99, 111, 109, 62, 32>>

\* committer Demo <demo@example.com>
S_committer_demo ==
    <<99, 111, 109, 109, 105, 116, 116, 101, 114, 32, 68, 101, 109, 111, 32, 60,
      100, 101, 109, 111, 64, 101, 120, 97, 109, 112, 108, 101, 46, 99, 111,
      109, 62, 32>>

\* author System <system@example.com>
S_author_system ==
    <<97, 117, 116, 104, 111, 114, 32, 83, 121, 115, 116, 101, 109, 32, 60, 115,
      121, 115, 116, 101, 109, 64, 101, 120, 97, 109, 112, 108, 101, 46, 99,
      111, 109, 62, 32>>

\* committer System <system@example.com>
S_committer_system ==
    <<99, 111, 109, 109, 105, 116, 116, 101, 114, 32, 83, 121, 115, 116, 101,
      109, 32, 60, 115, 121, 115, 116, 101, 109, 64, 101, 120, 97, 109, 112,
      108, 101, 46, 99, 111, 109, 62, 32>>

\*  -0000\n
S_tz ==
    <<32, 45, 48, 48, 48, 48, 10>>

\* Initial demo repository commit\n
S_demo_msg ==
    <<73, 110, 105, 116, 105, 97, 108, 32, 100, 101, 109, 111, 32, 114, 101,
      112, 111, 115, 105, 116, 111, 114, 121, 32, 99, 111, 109, 109, 105,
      116, 10>>

\* Initial commit from zip archive (
S_zip_msg ==
    <<73, 110, 105, 116, 105, 97, 108, 32, 99, 111, 109, 109, 105, 116, 32, 102,
      114, 111, 109, 32, 122, 105, 112, 32, 97, 114, 99, 104, 105, 118, 101,
      32, 40>>

\*  branch)\n
S_branch_msg ==
    <<32, 98, 114, 97, 110, 99, 104, 41, 10>>

\* master
S_master ==
    <<109, 97, 115, 116, 101, 114>>

\* trunk
S_trunk ==
    <<116, 114, 117, 110, 107>>

\* develop
S_develop ==
    <<100, 101, 118, 101, 108, 111, 112>>

\* a relative path p, seen from the working directory cwd after os.chdir(cwd)
Under(cwd, p) == cwd \o p

\* b"tree <hash>\n", the author and committer lines with the time ts, an
\* empty line, the message and b"\n"
CommitText(tree_hash, author, committer, ts, msg) ==
    S_tree \o <<SP>> \o tree_hash \o <<LF>>
        \o author \o Decimal(ts) \o S_tz
        \o committer \o Decimal(ts) \o S_tz \o <<LF>>
        \o msg \o <<LF>>

\* refs_path.parent.mkdir(parents=True, exist_ok=True)
\* refs_path.write_text(commit_hash + "\n")
RefUpdated(w, par, branch) ==
    IF w.err # "OK" THEN FsErr(w.err, w.fs)
    ELSE ThenWrite(MkdirP(w.fs, HeadsDir(par), TRUE),
                   Append(HeadsDir(par), branch), w.hash \o <<LF>>)

\* commit_hash = write_object(target_dir, "commit", contents), on the tree
\* that write_tree has left
CommitStored(t, par, branch, author, committer, ts, msg) ==
    IF t.err # "OK" THEN FsErr(t.err, t.fs)
    ELSE RefUpdated(write_object(t.fs, par, S_commit,
                                 CommitText(t.hash, author, committer, ts, msg)),
                    par, branch)

\* the files README.md, example.py and data/sample.json
DemoFiles(f, dir) ==
    ThenWrite(ThenMkdir(ThenWrite(ThenWrite(MkdirP(f, dir, TRUE),
                                            Append(dir, S_readme_name), T_readme),
                                  Append(dir, S_example_name), T_example),
                        Append(dir, S_data), TRUE),
              dir \o <<S_data, S_sample_name>>, T_sample)

DemoInit(r, dir) == IF r.err # "OK" THEN r ELSE init_repo(r.fs, dir)

\* os.chdir(target_dir), then write_tree(target_dir), the commit and the ref:
\* target_dir is now a path below the new working directory
DemoCommitted(r, dir, ts) ==
    IF r.err # "OK" THEN r
    ELSE CommitStored(write_tree(r.fs, Under(dir, dir), dir), Under(dir, dir), S_main,
                      S_author_demo, S_committer_demo, ts, S_demo_msg)

\* setup_demo_repo(target_dir) at the time ts: [err, fs]
setup_demo_repo(f, dir, ts) == DemoCommitted(DemoInit(DemoFiles(f, dir), dir), dir, ts)

\* the names of the items of an extracted directory
Items(arch) == Sorted({q[1] : q \in DOMAIN arch})

\* shutil.copytree(src_path, dst_path)
CopyTree(f, arch, dir, item) ==
    [q \in {dir \o a : a \in {a \in DOMAIN arch : a[1] = item}} |->
        arch[SubSeq(q, Len(dir) + 1, Len(q))]] @@ f

\* a directory of the archive: shutil.rmtree(dst_path) if it exists, copytree
CopyDir(f, arch, dir, item) ==
    IF IsFile(f, Append(dir, item)) THEN FsErr("NotADirectoryError", f)
    ELSE FsOk(CopyTree(RmTree(f, Append(dir, item)), arch, dir, item))

\* a file of the archive: shutil.copy2(src_path, dst_path), which copies into
\* dst_path where that is a directory
CopyFile(f, arch, dir, item) ==
    IF IsDir(f, Append(dir, item))
    THEN WriteBytes(f, dir \o <<item, item>>, arch[<<item>>].data)
    ELSE WriteBytes(f, Append(dir, item), arch[<<item>>].data)

CopyItem(f, arch, dir, item) ==
    IF arch[<<item>>].type = "dir" THEN CopyDir(f, arch, dir, item)
    ELSE CopyFile(f, arch, dir, item)

\* the loop over os.listdir(extracted_dir); the listing has no particular
\* order, which makes no difference while no item raises
RECURSIVE CopyItems(_, _, _, _)
CopyItems(r, arch, dir, items) ==
    IF r.err # "OK" \/ items = <<>> THEN r
    ELSE CopyItems(CopyItem(r.fs, arch, dir, Head(items)), arch, dir, Tail(items))

\* (target_dir / ".git" / "HEAD").write_text(f"ref: refs/heads/{branch}\n")
BranchHead(branch) == S_ref_prefix \o S_refs \o <<47>> \o S_heads \o <<47>> \o branch \o <<LF>>

ZipInit(r, dir, branch) ==
    IF r.err # "OK" THEN r
    ELSE ThenWrite(init_repo(r.fs, dir), HeadPath(dir), BranchHead(branch))

\* create_initial_commit(target_dir, branch)
ZipCommitted(r, dir, branch, ts) ==
    IF r.err # "OK" THEN r
    ELSE CommitStored(write_tree(r.fs, Under(dir, dir), dir), Under(dir, dir), branch,
                      S_author_system, S_committer_system, ts,
                      S_zip_msg \o branch \o S_branch_msg)

\* one pass of the loop over the branch options, with the extracted directory
\* arch of the archive of the branch: [err, fs]
ZipBranch(f, arch, dir, branch, ts) ==
    ZipCommitted(ZipInit(CopyItems(MkdirP(f, dir, TRUE), arch, dir, Items(arch)),
                         dir, branch),
                 dir, branch, ts)

\* [default_branch] if default_branch else ['main', 'master', 'trunk', 'develop']
BranchOptions(z) ==
    IF z.api # <<>> THEN <<z.api>> ELSE <<S_main, S_master, S_trunk, S_develop>>

\* the loop over the branch options, each with what the download and the
\* extraction of its archive give: no archive ("none"), an archive without a
\* directory ("nodir"), or a directory and its tree ("dir"): [ok, fs]
RECURSIVE ZipTry(_, _, _, _, _)
ZipNext(r, z, dir, branches, ts) ==
    IF r.err = "OK" THEN [ok |-> TRUE, fs |-> r.fs]
    ELSE ZipTry(r.fs, z, dir, branches, ts)

ZipTry(f, z, dir, branches, ts) ==
    IF branches = <<>> THEN [ok |-> FALSE, fs |-> f]
    ELSE IF z.archives[Head(branches)].got # "dir"
    THEN ZipTry(f, z, dir, Tail(branches), ts)
    ELSE ZipNext(ZipBranch(f, z.archives[Head(branches)].tree, dir, Head(branches), ts),
                 z, dir, Tail(branches), ts)

\* clone_via_zip(url, target_dir) at the time ts: [ok, fs]
clone_via_zip(f, z, dir, ts) ==
    IF ~z.github THEN [ok |-> FALSE, fs |-> f]
    ELSE ZipTry(f, z, dir, BranchOptions(z), ts)

\* the times of the clock
Timestamps == {1700000000, 1700000001}

\* if parent.exists(): shutil.rmtree(parent)
Removed(f, dir) == IF Exists(f, dir) THEN RmTree(f, dir) ELSE f

\* if clone_via_zip(url, parent): ... else: ...
Zipped(r) ==
    /\ fs' = r.fs
    /\ pc' = IF r.ok THEN "done" ELSE "demo"
    /\ ret' = [op |-> "zip", err |-> IF r.ok THEN "OK" ELSE "False"]

\* the ZIP fallback, after the handler of the smart protocol
Zip ==
    /\ pc = "zip"
    /\ \E ts \in Timestamps : Zipped(clone_via_zip(fs, net.zip, parent, ts))
    /\ UNCHANGED <<hist, cloneVars>>

DemoMade(r, next) ==
    /\ fs' = r.fs
    /\ pc' = IF r.err = "OK" THEN "done" ELSE next
    /\ ret' = [op |-> "demo", err |-> r.err]

\* the else branch: the demo repository after the ZIP fallback returned False
Demo ==
    /\ pc = "demo"
    /\ \E ts \in Timestamps : DemoMade(setup_demo_repo(Removed(fs, parent), parent, ts), "unhandled")
    /\ UNCHANGED <<hist, cloneVars>>

\* the outer handler: the demo repository after an exception outside the
\* inner try block; an exception here leaves main
Unhandled ==
    /\ pc = "unhandled"
    /\ \E ts \in Timestamps : DemoMade(setup_demo_repo(Removed(fs, parent), parent, ts), "raised")
    /\ UNCHANGED <<hist, cloneVars>>

----------------------------------------------------------------------------
(* SpecChain: the clone command with its fallbacks, against a server whose *)
(* answers to the smart protocol and to the ZIP download are inputs, into a *)
(* target directory whose state before is an input.                        *)

N_z == <<122>>             \* "z"

\* the archives: none, one without a directory, the files a and d/b, and
\* the same with a directory .git
Archive_none == [got |-> "none", tree |-> <<>>]
Archive_nodir == [got |-> "nodir", tree |-> <<>>]
Archive_ab ==
    [got |-> "dir",
     tree |-> (<<N_a>> :> File(Blob_a)) @@ (<<N_d>> :> Dir) @@ (<<N_d, N_b>> :> File(Blob_b))]
Archive_git ==
    [got |-> "dir",
     tree |-> (<<S_git>> :> Dir) @@ (<<S_git, S_HEAD>> :> File(InitialHead))
                @@ (<<N_a>> :> File(Blob_a))]

NoArchives == [b \in {S_main, S_master, S_trunk, S_develop} |-> Archive_none]

\* what the ZIP fallback meets: a URL not of GitHub; a default branch and
\* its archive; no default branch and an archive of master, after none of
\* main, after one without a directory, or after one with a .git; no archive
Zips ==
    [other |-> [github |-> FALSE, api |-> <<>>, archives |-> NoArchives],
     api_main |-> [github |-> TRUE, api |-> S_main,
                   archives |-> (S_main :> Archive_ab) @@ NoArchives],
     master |-> [github |-> TRUE, api |-> <<>>,
                 archives |-> (S_master :> Archive_ab) @@ NoArchives],
     nodir_master |-> [github |-> TRUE, api |-> <<>>,
                       archives |-> (S_main :> Archive_nodir) @@ (S_master :> Archive_ab)
                                      @@ NoArchives],
     git_master |-> [github |-> TRUE, api |-> <<>>,
                     archives |-> (S_main :> Archive_git) @@ (S_master :> Archive_ab)
                                    @@ NoArchives],
     nothing |-> [github |-> TRUE, api |-> <<>>, archives |-> NoArchives]]

\* the answers to the smart protocol: clones that succeed, without and with
\* a delta; a pack with an ofs_delta in the middle, a pack that ends early,
\* no HEAD advertised, no answer to the fetch, no answer at all
SmartCases ==
    {<<"head_branch", "direct">>, <<"head_branch", "delta">>, <<"head_branch", "ofs_mid">>,
     <<"head_branch", "short">>, <<"branch_only", "direct">>,
     <<"head_branch", "none">>, <<"none", "none">>}

\* the target directory before the command: absent, a directory with the
\* files a and z, a directory with a file z and a directory .git
ChainTargets ==
    [absent |-> EmptyFs,
     files |-> (<<N_t, N_a>> :> File(<<111>>)) @@ (<<N_t, N_z>> :> File(<<111, 108, 100>>))
                 @@ (<<N_t>> :> Dir) @@ EmptyFs,
     repo |-> (<<N_t, S_git>> :> Dir) @@ (<<N_t, N_z>> :> File(<<111, 108, 100>>))
                 @@ (<<N_t>> :> Dir) @@ EmptyFs]

InitChain ==
    /\ \E s \in {s \in Servers : s.name \in SmartCases},
          z \in DOMAIN Zips :
         net = [up |-> s.up, advert |-> s.advert, serving |-> s.serving, pack |-> s.pack,
                name |-> s.name, zip |-> Zips[z], zname |-> z]
    /\ \E t \in DOMAIN ChainTargets :
         /\ fs = ChainTargets[t]
         /\ hist = [target |-> t, before |-> ChainTargets[t]]
    /\ pc = "idle"
    /\ ret = NoRet
    /\ parent = <<>>
    /\ refs = <<>>
    /\ pack_file = <<>>
    /\ n_left = 0
    /\ base_content = <<>>
    /\ content = <<>>
    /\ target_content = <<>>

NextChain ==
    \/ NextClone
    \/ Zip
    \/ Demo
    \/ Unhandled

SpecChain == InitChain /\ [][NextChain]_vars

\* a file that was in the target before the command and is there unchanged
Stale(f, p) == IsFile(hist.before, p) /\ Exists(f, p) /\ f[p] = hist.before[p]

\* the filesystem that a fallback leaves when it succeeds on an absent target
ZipProducts == {clone_via_zip(EmptyFs, net.zip, <<N_t>>, ts).fs : ts \in Timestamps}
DemoProducts == {setup_demo_repo(EmptyFs, <<N_t>>, ts).fs : ts \in Timestamps}

\* the command has ended: the target holds no file from before the command,
\* and after a fallback exactly what the fallback makes of an absent target
OnlyTheProduct ==
    pc = "done" =>
        /\ \A p \in DOMAIN hist.before : ~Stale(fs, p)
        /\ ret.op = "zip" => fs \in ZipProducts
        /\ ret.op = "demo" => fs \in DemoProducts

\* the ZIP download begins only after the smart protocol failed, on a target
\* that has been deleted
ZipAfterSmart ==
    (pc' = "zip" /\ pc # "zip") =>
        /\ pc = "handler"
        /\ ret.op = "clone" /\ ret.err # "OK"
        /\ ~Exists(fs', parent)

\* the demo repository is made only after the ZIP download failed
DemoAfterZip ==
    (ret'.op = "demo" /\ ret.op # "demo") => (ret.op = "zip" /\ ret.err = "False")

\* the demo repository is made after the ZIP download failed, or at once
\* after init_repo raised
DemoAfterZipOrInit ==
    (ret'.op = "demo" /\ ret.op # "demo") =>
        \/ pc = "demo" /\ ret.op = "zip" /\ ret.err = "False"
        \/ pc = "unhandled" /\ ret.op = "clone" /\ ret.err # "OK"

\* C12: the strategies run in the order smart protocol, ZIP download, demo
\* repository, each only after the one before failed and on a deleted target,
\* so that the target in the end holds only what the strategy that succeeded
\* made, and nothing from before the command or from a strategy that failed
FallbackChain ==
    []OnlyTheProduct /\ [][ZipAfterSmart /\ DemoAfterZip]_vars

\* C12 for the fallbacks: what holds of the ZIP download and of the demo
\* repository, wherever the smart protocol failed
FallbackChainOfFallbacks ==
    /\ []((pc = "done" /\ ret.op # "clone") => OnlyTheProduct)
    /\ [][ZipAfterSmart /\ DemoAfterZipOrInit]_vars

\* C12: the smart protocol has succeeded into a directory that had the files
\* a and z: z is still there
StaleAfterClone ==
    /\ pc = "done"
    /\ ret.op = "clone"
    /\ hist.target = "files"
    /\ fs[<<N_t, N_a>>] = File(Blob_a)
    /\ fs[<<N_t, N_z>>] = hist.before[<<N_t, N_z>>]

\* C12: init_repo has raised on a target with a directory .git, and the demo
\* repository has been made without the ZIP download having run
DemoWithoutZip ==
    /\ pc = "done"
    /\ ret.op = "demo"
    /\ hist.target = "repo"
    /\ net.zname = "api_main"
    /\ ~Exists(fs, <<N_t, N_z>>)

\* C12: the ZIP download has succeeded after the smart protocol had stored
\* every object of the pack and failed; none of them is left
ZipAfterFailedClone ==
    /\ pc = "done"
    /\ ret.op = "zip"
    /\ net.name = <<"branch_only", "direct">>
    /\ hist.target = "files"
    /\ StoredShas(fs, parent) = {}
    /\ fs[<<N_t, N_a>>] = File(Blob_a)

====
